---------------------------- MODULE Spec2Model ----------------------------
(***************************************************************************)
(* Door lock monitor (ESP32-S3, A3144 Hall switch).                        *)
(*                                                                         *)
(* The module models the ESP-IDF firmware: the buzzer sequencer            *)
(* (buzzer.c), the Hall sensor task and the MQTT event handler of the      *)
(* current main program, the Wi-Fi event handler (wifi_manager.c) and the  *)
(* MQTT wrapper module (mqtt_publish and its event handler); and the two  *)
(* Arduino sketches of the Prototype directory.                            *)
(*                                                                         *)
(* Time is the value of esp_timer_get_time() / 1000, in milliseconds.      *)
(* Levels of GPIO pins are 0 (low) and 1 (high); the raw Hall input is a   *)
(* BOOLEAN, TRUE for a HIGH pin (no magnet).                               *)
(*                                                                         *)
(* Specifications:                                                         *)
(*   SpecBuzzer   the buzzer module driven through its API                 *)
(*   Spec         the firmware: hall_task, main loop, link and session     *)
(*   SpecAlert    the firmware with inbound commands, over the length of   *)
(*                whole alert sequences                                    *)
(*   SpecPublish  the two publish paths: hall_task and mqtt_publish        *)
(*   SpecCommand  the firmware receiving messages on the command topic     *)
(*   SpecLink     wifi_init, the Wi-Fi event handler and the monitor task  *)
(*   SpecAsync    the session supervisor of the asynchronous sketch        *)
(*   SpecSync     the synchronous sketch                                   *)
(*   SpecTerm     one beep sequence with any int arguments                 *)
(*   SpecRace     hall_task statement by statement beside the MQTT task    *)
(*   SpecCalls    the buzzer API called from three tasks, statement by     *)
(*                statement                                                *)
(*   SpecPulse    the buzzer output in time                                *)
(*   SpecTopic    the firmware receiving messages on any topic             *)
(*   SpecSession  sessions coming up and going down, with commands         *)
(*   SpecBoot     app_main from wifi_init to its loop                      *)
(*   SpecQueue    the queue-based main: mqtt_task and hall_task            *)
(*   SpecLife     the buzzer module from buzzer_init to buzzer_deinit      *)
(*   SpecAgree    the sequencers of the sketch and of buzzer.c side by side*)
(*   SpecStamp    hall_task's debounce test on 32-bit timestamps           *)
(***************************************************************************)
EXTENDS Integers, Sequences, FiniteSets

VARIABLES
    now,                 \* esp_timer_get_time() / 1000
    \* ---- buzzer.c
    buzzer_mutex,        \* "NULL", "valid", or "deleted": a handle kept after vSemaphoreDelete
    beep_active,
    beep_times,
    beep_duration,
    beep_start_time,
    buzzer_state,
    beep_count,
    buzzer_pin,          \* level last written to BUZZER_PIN
    \* ---- history of the running sequence (observation, not program state)
    seq_args,            \* <<times, duration>> of the last buzzer_start_beep
    seq_clean,           \* that call found the sequencer inactive, pin low
    seq_cut,             \* that call found the pin high and pulled it low first
    seq_toggles,         \* pin level changes since, counting the initial rise
    seq_stopped,         \* buzzer_stop_beep was called since
    seq_prev,            \* arguments of the sequence that call found active, or <<>>
    seq_at,              \* time of that call
    \* ---- main program: hall_task and the main loop
    raw,                 \* level of HALL_PIN (TRUE = HIGH)
    last_hall_state,
    last_interrupt_time,
    hall_pc,             \* "ready" (about to poll) or "delay" (in vTaskDelay)
    main_pc,             \* the same for the main loop
    \* ---- main program: MQTT, and wifi_manager.c
    mqtt_client,         \* "NULL" or "valid"
    mqtt_connected,
    subscribed,          \* the session holds a subscription to the command topic
    led_pin,             \* level last written to LED_PIN
    wifi_bit,            \* WIFI_CONNECTED_BIT of s_wifi_event_group
    wifi_attempt,        \* esp_wifi_connect() issued and not yet answered
    \* ---- what left the program, and what the input did (observation)
    published,           \* payloads handed to esp_mqtt_client_publish by hall_task
    door_events,         \* confirmed transitions: [closed, up]
    alert_log,           \* arguments of hall_task's buzzer_start_beep calls
    event_at,            \* time of the last confirmed transition
    edge,                \* the last change of the raw input
    raw_changes,         \* how often the raw input has changed
    \* ---- the MQTT wrapper module
    w_client,            \* its mqtt_client: "NULL", "valid" or "destroyed"
    w_mutex,             \* its mqtt_mutex: "NULL", "valid" or "deleted"
    mqtt_connected_flag,
    w_pc,                \* the task inside mqtt_publish: "idle", "send" or "stuck"
    w_arg,               \* the data argument of the call in progress
    w_ret,               \* result of the last mqtt_publish call that returned
    w_calls,             \* calls of mqtt_publish so far (observation)
    w_published,         \* data the wrapper handed to esp_mqtt_client_publish
    \* ---- inbound commands (observation)
    cmd,                 \* the last message delivered: its payload and number
    \* ---- wifi_manager.c: wifi_init and wifi_monitor_task
    mon_on,              \* wifi_monitor_task has been created
    init_left,           \* ms left of wifi_init's wait for WIFI_CONNECTED_BIT
    mon_wait,            \* ms left of the monitor's vTaskDelay
    mon_checked,         \* the monitor has made its first check
    \* ---- the link (observation)
    down_quiet,          \* ms the link has been down since the last esp_wifi_connect
    link_last,           \* the last of GOT_IP / STA_DISCONNECTED handled, or "none"
    run,                 \* the last handler or monitor run: [by, calls of esp_wifi_connect]
    \* ---- the prototype sketches: session supervisor
    wifiConnected,       \* WiFi.isConnected()
    clientConnected,     \* mqttClient.connected(), client.connected()
    connectPending,      \* mqttClient.connect() called and not yet answered
    mqttConnected,
    mqttConnecting,
    sinceConnectStart,   \* millis() - mqttConnectStartTime, up to ConnectAgeCap
    sinceMqttCheck,      \* millis() - lastMqttCheck, up to CheckAgeCap
    disconnectDelay,     \* ms left of onMqttDisconnect's delay(5000), or -1
    \* ---- the asynchronous sketch (observation)
    connect_call,        \* the last step called mqttClient.connect()
    subscribe_call,      \* the last step called mqttClient.subscribe()
    relink,              \* "lost": session lost while the link was down;
                         \* "back": the link has come back since; else "none"
    flag_lag,            \* ms mqttConnected has been TRUE with the client
                         \* disconnected, or -1
    \* ---- the synchronous prototype sketch (PubSubClient)
    syncPc,              \* "loop", or "reconnect": inside reconnect()
    hallPin,             \* digitalRead(HALL_PIN) (TRUE = HIGH)
    lastState,
    beepActive,
    beepTimes,
    beepDuration,
    sinceBeepStart,      \* millis() - beepStartTime, up to BeepAgeCap
    buzzerOut,           \* level last written to BUZZER_PIN
    beep_started,        \* the last step called startBeep (observation)
    \* ---- hall_sensor.c
    hall_mutex,          \* "NULL" or "valid"
    last_state,          \* its static last_state
    \* ---- calls of the buzzer API in progress, statement by statement
    call_op,             \* per task: the function it is in, or "none"
    call_pc,             \* per task: the statement it is at, or "idle"
    mutex_owner,         \* the task holding buzzer_mutex, or "none"
    active_before,       \* beep_active as it was when the mutex was taken
    raced,               \* a call has waited for the mutex while another
                         \* task was inside (observation)
    lin,                 \* the buzzer state after the calls so far, each
                         \* taken as one step (observation)
    \* ---- the output (observation)
    level_at,            \* time of the last change of the buzzer output
    \* ---- inbound messages (observation)
    cmd_topic,           \* topic of the last message MQTT_EVENT_DATA handled
    session_no,          \* MQTT_EVENT_CONNECTED events handled
    \* ---- app_main before its loop
    boot_pc,             \* the step of init_components / create_tasks
                         \* reached, "running", or "failed"
    boot_at,             \* time at which that step was reached
    ever_up,             \* IP_EVENT_STA_GOT_IP has been handled (observation)
    \* ---- the queue-based main: mqtt_task
    reconnect_call,      \* its last iteration restarted the MQTT client
    \* ---- the two sequencers side by side
    agree,               \* the sequence both were given, and the pulses seen (observation)
    \* ---- the queue-based main: hall_task
    qhall,               \* its last_hall_state, and what it passed to mqtt_publish
    \* ---- hall_task with its timestamps as uint32_t
    stamp                \* its statics and position; the true times (observation)

buzzerVars == <<buzzer_mutex, beep_active, beep_times, beep_duration,
                beep_start_time, buzzer_state, beep_count, buzzer_pin>>
seqVars    == <<seq_args, seq_clean, seq_cut, seq_toggles, seq_stopped,
                seq_prev, seq_at>>
hallVars   == <<last_hall_state, last_interrupt_time>>
pcVars     == <<hall_pc, main_pc>>
mqttVars   == <<mqtt_client, mqtt_connected, subscribed>>
wifiVars   == <<wifi_bit, wifi_attempt>>
logVars    == <<published, door_events, alert_log, event_at>>
wrapVars   == <<w_client, w_mutex, mqtt_connected_flag, w_pc, w_arg, w_ret,
                w_calls, w_published>>
cmdVars    == <<cmd>>
linkVars   == <<mon_on, init_left, mon_wait, mon_checked, down_quiet, link_last,
                run>>
asyncVars  == <<wifiConnected, clientConnected, connectPending, mqttConnected,
                mqttConnecting, sinceConnectStart, sinceMqttCheck,
                disconnectDelay, connect_call, subscribe_call, relink, flag_lag>>
syncVars   == <<syncPc, hallPin, lastState, beepActive, beepTimes, beepDuration,
                sinceBeepStart, buzzerOut, beep_started>>
sensorVars == <<hall_mutex, last_state>>
bootVars   == <<boot_pc, boot_at, ever_up>>
tailVars   == <<agree, qhall, stamp>>
moreVars   == <<cmd_topic, session_no, bootVars, reconnect_call, tailVars>>
callVars   == <<call_op, call_pc, mutex_owner, active_before, raced, lin>>
extVars    == <<cmdVars, linkVars, asyncVars, syncVars, sensorVars, callVars,
                level_at, moreVars>>

vars == <<now, buzzerVars, seqVars, raw, hallVars, pcVars, mqttVars, led_pin,
          wifiVars, logVars, edge, raw_changes, wrapVars,
                   extVars>>

(***************************************************************************)
(* Program constants.  config.h is not committed; the values are the ones  *)
(* the README documents.                                                   *)
(***************************************************************************)
HALL_DEBOUNCE_MS      == 100
BEEP_DEFAULT_TIMES    == 3
BEEP_DEFAULT_DURATION == 200
BEEP_CMD_TIMES        == 5
BEEP_CMD_DURATION     == 300
Half                  == 65536  \* 2^16: a uint32_t is two halves of 16 bits
PollMs                == 10     \* vTaskDelay(pdMS_TO_TICKS(10)) of both loops
BootMs                == 3000   \* init_components waits 3 s before the tasks start
MONITOR_CHECK_INTERVAL == 60000 \* period of wifi_monitor_task
WifiInitWaitMs        == 10000  \* wifi_init waits this long for the first connection

(***************************************************************************)
(* Bounds of the model.                                                    *)
(***************************************************************************)
MaxTicks      == 28   \* Spec: periods of PollMs the clock advances
MaxApiTicks   == 14   \* SpecBuzzer: the same
MaxTimes      == 3    \* SpecBuzzer: times argument of buzzer_start_beep
MaxDurTicks   == 2    \* SpecBuzzer: duration argument, in periods of PollMs
MaxRawChanges == 3    \* Spec: changes of the raw input
MaxSlackTicks == 5    \* SpecAlert: periods the clock advances after the alerts
MaxPubTicks   == 2    \* SpecPublish: periods of PollMs the clock advances
MaxCalls      == 2    \* SpecPublish: calls of mqtt_publish
MaxCmdTicks   == 8    \* SpecCommand: periods of PollMs the clock advances
MaxCommands   == 2    \* SpecCommand: messages delivered
MaxRaceTicks  == 12   \* SpecRace: periods of PollMs the clock advances
MaxSessions   == 2    \* SpecSession: sessions established
MaxBootTicks  == 12   \* SpecBoot: periods of PollMs the clock advances in the loop
StampLeadTicks == 6   \* SpecStamp: periods of PollMs from the start to the wrap
MaxStampTicks == 24   \* SpecStamp: periods of PollMs the clock advances
MaxCallTicks  == 4    \* SpecCalls: periods of CallStepMs the clock advances
MaxPulseTicks == 8    \* SpecPulse: periods of PollMs the clock advances
LinkSteps     == 6    \* SpecLink: clock steps per MONITOR_CHECK_INTERVAL

(***************************************************************************)
(* buzzer.c                                                                *)
(***************************************************************************)

\* gpio_set_level(BUZZER_PIN, level) seen from outside: 1 if the level changes.
PinChange(old, new) == IF old = new THEN 0 ELSE 1

\* The comparison giving true before the duration has passed.
ElapsedReached_at_once(elapsed, duration) == TRUE

\* elapsed >= beep_duration, elapsed a uint64_t and beep_duration an int: the int
\* is converted to uint64_t, so a negative duration compares above any elapsed.
ElapsedReached(elapsed, duration) ==
    IF duration < 0 THEN FALSE ELSE elapsed >= duration

\* buzzer_init, the path on which the mutex and the GPIO are set up.
buzzer_init ==
    /\ buzzer_mutex' = "valid"
    /\ buzzer_pin' = 0
    /\ buzzer_state' = FALSE
    /\ seq_toggles' = seq_toggles + PinChange(buzzer_pin, 0)
    /\ UNCHANGED <<beep_active, beep_times, beep_duration, beep_start_time,
                   beep_count, seq_args, seq_clean, seq_cut, seq_stopped,
                   seq_prev, seq_at>>

\* buzzer_start_beep going on from the count of the sequence it replaces.
buzzer_start_beep_keeps_count(times, duration) ==
    IF buzzer_mutex = "NULL"
    THEN UNCHANGED <<buzzerVars, seqVars>>
    ELSE /\ beep_times' = times
         /\ beep_duration' = duration
         /\ beep_count' = beep_count
         /\ beep_start_time' = now
         /\ beep_active' = TRUE
         /\ buzzer_pin' = 1
         /\ buzzer_state' = TRUE
         /\ UNCHANGED buzzer_mutex
         /\ seq_args' = <<times, duration>>
         /\ seq_clean' = (~beep_active /\ buzzer_pin = 0)
         /\ seq_cut' = (PinChange(buzzer_pin, 0) = 1)
         /\ seq_toggles' = PinChange(0, 1)
         /\ seq_stopped' = FALSE
         /\ seq_prev' = IF beep_active THEN seq_args ELSE <<>>
         /\ seq_at' = now

\* buzzer_start_beep(times, duration): ESP_FAIL without a mutex; otherwise the
\* running sequence is dropped (pin low), the new one armed and the pin raised.
buzzer_start_beep(times, duration) ==
    IF buzzer_mutex = "NULL"
    THEN UNCHANGED <<buzzerVars, seqVars>>
    ELSE /\ beep_times' = times
         /\ beep_duration' = duration
         /\ beep_count' = 0
         /\ beep_start_time' = now
         /\ beep_active' = TRUE
         /\ buzzer_pin' = 1
         /\ buzzer_state' = TRUE
         /\ UNCHANGED buzzer_mutex
         /\ seq_args' = <<times, duration>>
         /\ seq_clean' = (~beep_active /\ buzzer_pin = 0)
         /\ seq_cut' = (PinChange(buzzer_pin, 0) = 1)
         /\ seq_toggles' = PinChange(0, 1)
         /\ seq_stopped' = FALSE
         /\ seq_prev' = IF beep_active THEN seq_args ELSE <<>>
         /\ seq_at' = now

\* buzzer_stop_beep with the write of the pin left out.
buzzer_stop_beep_keeps_pin ==
    IF buzzer_mutex = "NULL"
    THEN UNCHANGED <<buzzerVars, seqVars>>
    ELSE /\ beep_active' = FALSE
         /\ buzzer_state' = FALSE
         /\ beep_count' = 0
         /\ UNCHANGED <<buzzer_mutex, buzzer_pin, beep_times, beep_duration,
                        beep_start_time>>
         /\ seq_stopped' = TRUE
         /\ UNCHANGED <<seq_args, seq_clean, seq_cut, seq_toggles, seq_prev, seq_at>>

\* buzzer_stop_beep
buzzer_stop_beep ==
    IF buzzer_mutex = "NULL"
    THEN UNCHANGED <<buzzerVars, seqVars>>
    ELSE /\ beep_active' = FALSE
         /\ buzzer_pin' = 0
         /\ buzzer_state' = FALSE
         /\ beep_count' = 0
         /\ UNCHANGED <<buzzer_mutex, beep_times, beep_duration, beep_start_time>>
         /\ seq_toggles' = seq_toggles + PinChange(buzzer_pin, 0)
         /\ seq_stopped' = TRUE
         /\ UNCHANGED <<seq_args, seq_clean, seq_cut, seq_prev, seq_at>>

\* UpdateHigh ending the sequence one beep late (beep_count > beep_times).
UpdateHigh_one_beep_more ==
    IF ElapsedReached(now - beep_start_time, beep_duration)
    THEN /\ buzzer_pin' = 0
         /\ buzzer_state' = FALSE
         /\ beep_count' = beep_count + 1
         /\ beep_start_time' = now
         /\ beep_active' = (beep_count + 1 <= beep_times)
         /\ seq_toggles' = seq_toggles + PinChange(buzzer_pin, 0)
         /\ UNCHANGED <<buzzer_mutex, beep_times, beep_duration>>
         /\ UNCHANGED <<seq_args, seq_clean, seq_cut, seq_stopped,
                   seq_prev, seq_at>>
    ELSE UNCHANGED <<buzzerVars, seqVars>>

\* buzzer_update, the branch taken while the buzzer is sounding: after
\* beep_duration the pin falls, the beep is counted, and the sequence ends with
\* the last one.
UpdateHigh ==
    IF ElapsedReached(now - beep_start_time, beep_duration)
    THEN /\ buzzer_pin' = 0
         /\ buzzer_state' = FALSE
         /\ beep_count' = beep_count + 1
         /\ beep_start_time' = now
         /\ beep_active' = (beep_count + 1 < beep_times)
         /\ seq_toggles' = seq_toggles + PinChange(buzzer_pin, 0)
         /\ UNCHANGED <<buzzer_mutex, beep_times, beep_duration>>
         /\ UNCHANGED <<seq_args, seq_clean, seq_cut, seq_stopped,
                   seq_prev, seq_at>>
    ELSE UNCHANGED <<buzzerVars, seqVars>>

\* UpdateLow recording the new beep without raising the pin.
UpdateLow_no_write ==
    IF beep_count < beep_times
       /\ ElapsedReached(now - beep_start_time, beep_duration)
    THEN /\ buzzer_state' = TRUE
         /\ beep_start_time' = now
         /\ UNCHANGED <<buzzer_mutex, buzzer_pin, beep_active, beep_times,
                        beep_duration, beep_count>>
         /\ UNCHANGED seqVars
    ELSE UNCHANGED <<buzzerVars, seqVars>>

\* buzzer_update, the branch taken while the buzzer is silent: after
\* beep_duration the next beep starts, if one is left.
UpdateLow ==
    IF beep_count < beep_times
       /\ ElapsedReached(now - beep_start_time, beep_duration)
    THEN /\ buzzer_pin' = 1
         /\ buzzer_state' = TRUE
         /\ beep_start_time' = now
         /\ seq_toggles' = seq_toggles + PinChange(buzzer_pin, 1)
         /\ UNCHANGED <<buzzer_mutex, beep_active, beep_times, beep_duration,
                        beep_count>>
         /\ UNCHANGED <<seq_args, seq_clean, seq_cut, seq_stopped,
                   seq_prev, seq_at>>
    ELSE UNCHANGED <<buzzerVars, seqVars>>

\* buzzer_update
buzzer_update ==
    IF ~beep_active \/ buzzer_mutex = "NULL"
    THEN UNCHANGED <<buzzerVars, seqVars>>
    ELSE IF buzzer_state THEN UpdateHigh ELSE UpdateLow

(***************************************************************************)
(* The state the firmware is in when its tasks start: init_components has  *)
(* returned ESP_OK, so the buzzer and the Hall sensor are initialised; the *)
(* Wi-Fi link is up or still being connected; the MQTT client exists       *)
(* unless mqtt_init failed, and has not connected yet.                     *)
(***************************************************************************)
NoEdge == [at |-> 0, conf |-> TRUE, from |-> TRUE, nev |-> 0, npub |-> 0, nal |-> 0,
           seen |-> FALSE]

InitBuzzerStatics ==
    /\ beep_active = FALSE
    /\ beep_times = 0
    /\ beep_duration = 0
    /\ beep_start_time = 0
    /\ buzzer_state = FALSE
    /\ beep_count = 0
    /\ buzzer_pin = 0
    /\ seq_args = <<>>
    /\ seq_clean = FALSE
    /\ seq_cut = FALSE
    /\ seq_toggles = 0
    /\ seq_stopped = FALSE
    /\ seq_prev = <<>>
    /\ seq_at = 0

InitMainStatics ==
    /\ last_hall_state = TRUE
    /\ last_interrupt_time = 0
    /\ hall_pc = "ready"
    /\ main_pc = "ready"
    /\ mqtt_connected = FALSE
    /\ subscribed = FALSE
    /\ published = <<>>
    /\ door_events = <<>>
    /\ alert_log = <<>>
    /\ event_at = 0
    /\ edge = NoEdge
    /\ raw_changes = 0

InitWrapperStatics ==
    /\ w_client = "NULL"
    /\ w_mutex = "NULL"
    /\ mqtt_connected_flag = FALSE
    /\ w_pc = "idle"
    /\ w_arg = "none"
    /\ w_ret = "none"
    /\ w_calls = 0
    /\ w_published = <<>>

\* Nothing has been observed yet.  wifi_init has returned: its wait is over and
\* the monitor task sleeps (its period lies beyond the time that the
\* specifications of the tasks cover, and only SpecLink lets it run).
\* Neither sequencer has been given the common sequence.
NoAgree == [started |-> FALSE, n |-> 0, d |-> 0, esp_ran |-> FALSE,
            sk_ran |-> FALSE, esp_rise |-> 0, sk_rise |-> 0, esp_pulses |-> 0,
            sk_pulses |-> 0, esp_short |-> FALSE, sk_short |-> FALSE]

\* No message has been handled.
InitMore ==
    /\ cmd_topic = ""
    /\ session_no = 0
    /\ reconnect_call = FALSE
    /\ agree = NoAgree
    /\ qhall = [last |-> TRUE, published |-> <<>>]

\* hall_task is not followed with 32-bit timestamps.
InitUnstamped ==
    stamp = [pc |-> "none", last_hall_state |-> TRUE,
             last_interrupt_time |-> <<0, 0>>, since |-> 0,
             pending |-> -1, accepts |-> 0, early |-> FALSE]

\* app_main in its loop, the tasks created.
InitBooted ==
    /\ boot_pc = "running"
    /\ boot_at = 0
    /\ ever_up = FALSE

Tasks == {"hall", "mqtt", "main"}

\* No task is inside the buzzer API; lin is the state of buzzer.c's statics.
InitNoCalls ==
    /\ call_op = [t \in Tasks |-> "none"]
    /\ call_pc = [t \in Tasks |-> "idle"]
    /\ mutex_owner = "none"
    /\ active_before = FALSE
    /\ raced = FALSE
    /\ lin = [active |-> FALSE, times |-> 0, duration |-> 0, start_time |-> 0,
              state |-> FALSE, count |-> 0, pin |-> 0]
    /\ level_at = 0
    /\ InitMore

\* hall_sensor.c before hall_sensor_init.
InitSensorStatics ==
    /\ hall_mutex = "NULL"
    /\ last_state = TRUE

\* Globals of the synchronous sketch, and its pins after setup().
InitSketchStatics ==
    /\ syncPc = "loop"
    /\ hallPin = TRUE
    /\ lastState = TRUE
    /\ beepActive = FALSE
    /\ beepTimes = 0
    /\ beepDuration = 0
    /\ sinceBeepStart = 0
    /\ buzzerOut = 0
    /\ beep_started = FALSE

\* The prototype sketches are separate programs: not running.
InitPrototypes ==
    /\ wifiConnected = FALSE
    /\ clientConnected = FALSE
    /\ connectPending = FALSE
    /\ mqttConnected = FALSE
    /\ mqttConnecting = FALSE
    /\ sinceConnectStart = 0
    /\ sinceMqttCheck = 0
    /\ disconnectDelay = -1
    /\ connect_call = FALSE
    /\ subscribe_call = FALSE
    /\ relink = "none"
    /\ flag_lag = -1
    /\ InitSketchStatics

InitObservation ==
    /\ InitPrototypes
    /\ InitNoCalls
    /\ InitBooted
    /\ cmd = [n |-> 0, data |-> <<>>]
    /\ mon_on = TRUE
    /\ init_left = 0
    /\ mon_wait = MONITOR_CHECK_INTERVAL
    /\ mon_checked = FALSE
    /\ down_quiet = 0
    /\ link_last = "none"
    /\ run = [by |-> "none", calls |-> 0]

(***************************************************************************)
(* SpecBuzzer: the buzzer module alone, from its static initial state,     *)
(* called through its API at any time.                                     *)
(***************************************************************************)
TimesSet    == 0..MaxTimes
DurationSet == {k * PollMs : k \in 1..MaxDurTicks}

otherThanBuzzer == <<raw, hallVars, pcVars, mqttVars, led_pin, wifiVars, logVars,
                     edge, raw_changes, wrapVars,
                   extVars>>

InitBuzzer ==
    /\ now = 0
    /\ buzzer_mutex = "NULL"
    /\ InitBuzzerStatics
    /\ InitMainStatics
    /\ InitWrapperStatics
    /\ InitObservation
    /\ InitUnstamped
    /\ InitSensorStatics
    /\ raw = TRUE
    /\ mqtt_client = "NULL"
    /\ led_pin = 0
    /\ wifi_bit = FALSE
    /\ wifi_attempt = FALSE

ApiInit ==
    /\ buzzer_mutex = "NULL"
    /\ buzzer_init
    /\ UNCHANGED <<now, otherThanBuzzer>>

ApiStart ==
    \E times \in TimesSet, duration \in DurationSet :
        /\ buzzer_start_beep(times, duration)
        /\ UNCHANGED <<now, otherThanBuzzer>>

ApiStop ==
    /\ buzzer_stop_beep
    /\ UNCHANGED <<now, otherThanBuzzer>>

ApiUpdate ==
    /\ buzzer_update
    /\ UNCHANGED <<now, otherThanBuzzer>>

ApiAdvance ==
    /\ now < MaxApiTicks * PollMs
    /\ now' = now + PollMs
    /\ UNCHANGED <<buzzerVars, seqVars, otherThanBuzzer>>

NextBuzzer == ApiInit \/ ApiStart \/ ApiStop \/ ApiUpdate \/ ApiAdvance

SpecBuzzer == InitBuzzer /\ [][NextBuzzer]_vars

(***************************************************************************)
(* Claims about the buzzer module (SpecBuzzer).                            *)
(***************************************************************************)

\* The sequence now observed was started by buzzer_start_beep(n, d) with n >= 1
\* and d > 0 while the sequencer was inactive with the output low, and nothing
\* but buzzer_update and the clock has acted since.
UninterruptedCleanRun ==
    /\ seq_args # <<>>
    /\ seq_clean
    /\ ~seq_stopped
    /\ seq_args[1] >= 1
    /\ seq_args[2] > 0

\* C3: buzzer_start_beep(n, d), n >= 1 and d > 0, issued while the sequencer is
\* inactive with the output low and followed only by buzzer_update, changes the
\* level of the pin exactly 2n times: while the sequence runs the pin has
\* changed 2 * beep_count times plus one for a beep that is sounding, which is
\* less than 2n, and once the sequence is inactive the pin has changed exactly
\* 2n times and is low.
C3_ExactlyTwoNToggles ==
    UninterruptedCleanRun =>
        /\ beep_active =>
              /\ seq_toggles = 2 * beep_count + buzzer_pin
              /\ seq_toggles < 2 * seq_args[1]
        /\ ~beep_active =>
              /\ seq_toggles = 2 * seq_args[1]
              /\ buzzer_pin = 0

\* C3 witness: a clean sequence of 3 beeps of 20 ms has run to its end.
C3_Witness ==
    /\ UninterruptedCleanRun
    /\ seq_args = <<3, 2 * PollMs>>
    /\ ~beep_active
    /\ seq_toggles = 6

\* C4: from buzzer_stop_beep until the next buzzer_start_beep, whatever the
\* state the stop found and however many buzzer_update ticks have run since,
\* the sequence is inactive and the output pin is low.
C4_StopSilences ==
    seq_stopped => (~beep_active /\ buzzer_pin = 0 /\ ~buzzer_state)

\* C4 witness: a sequence of 3 beeps was stopped after its first rise and
\* before its second, and time has passed since.
C4_Witness ==
    /\ seq_stopped
    /\ seq_args = <<3, 2 * PollMs>>
    /\ seq_toggles = 2
    /\ now >= beep_start_time + 3 * PollMs

\* C5: the level last written to the buzzer pin equals buzzer_state, and the
\* pin is low whenever beep_active is false.
C5_PinFollowsState ==
    /\ (buzzer_pin = 1) = buzzer_state
    /\ ~beep_active => buzzer_pin = 0

\* C5 witness: the second beep of a sequence is sounding.
C5_Witness ==
    /\ beep_active
    /\ buzzer_pin = 1
    /\ beep_count = 1

(***************************************************************************)
(* The main program: hall_task                                             *)
(***************************************************************************)

\* hall_sensor_init, the path that returns ESP_OK, as an initial condition:
\* the mutex exists and last_state holds the level read from HALL_PIN.
hall_sensor_init ==
    /\ hall_mutex = "valid"
    /\ last_state = raw

\* hall_sensor_read: false without a mutex, else the level of HALL_PIN.
hall_sensor_read == IF hall_mutex = "NULL" THEN FALSE ELSE raw

\* hall_sensor_get_last_state: false without a mutex, else last_state.
hall_sensor_get_last_state == IF hall_mutex = "NULL" THEN FALSE ELSE last_state

\* The debounce test passing one poll of hall_task later.
DebounceElapsed_late(current_time) ==
    current_time - last_interrupt_time > HALL_DEBOUNCE_MS + PollMs

\* The debounce test passing at any time.
DebounceElapsed_any(current_time) == TRUE

\* current_time - last_interrupt_time > HALL_DEBOUNCE_MS (uint32_t milliseconds;
\* within the time the model covers neither timestamp wraps).
DebounceElapsed(current_time) ==
    current_time - last_interrupt_time > HALL_DEBOUNCE_MS

\* hall_task's publish with the test of the session flag left out.
hall_publish_unguarded(payload, ok) ==
    published' = Append(published, [payload |-> payload, ok |-> ok])

\* if (mqtt_connected && mqtt_client) esp_mqtt_client_publish(...): ok is what
\* the transport answers (a message id, or -1), which hall_task does not read.
hall_publish(payload, ok) ==
    IF mqtt_connected /\ mqtt_client # "NULL"
    THEN published' = Append(published, [payload |-> payload, ok |-> ok])
    ELSE UNCHANGED published

\* The body of the debounce check without the assignment to last_hall_state.
HallConfirm_keeps_state(current_state, ok) ==
    /\ last_hall_state' = last_hall_state
    /\ last_interrupt_time' = now
    /\ hall_publish(IF ~current_state THEN "CLOSED" ELSE "OPEN", ok)
    /\ buzzer_start_beep(BEEP_DEFAULT_TIMES, BEEP_DEFAULT_DURATION)
    /\ alert_log' = Append(alert_log, <<BEEP_DEFAULT_TIMES, BEEP_DEFAULT_DURATION>>)
    /\ door_events' = Append(door_events,
                             [closed |-> ~current_state, up |-> mqtt_connected])
    /\ event_at' = now

\* The body of the debounce check starting the alert only after a publish that
\* the transport accepted.
HallConfirm_alert_if_published(current_state, ok) ==
    /\ last_hall_state' = current_state
    /\ last_interrupt_time' = now
    /\ hall_publish(IF ~current_state THEN "CLOSED" ELSE "OPEN", ok)
    /\ IF mqtt_connected /\ mqtt_client # "NULL" /\ ok
       THEN /\ buzzer_start_beep(BEEP_DEFAULT_TIMES, BEEP_DEFAULT_DURATION)
            /\ alert_log' = Append(alert_log,
                                   <<BEEP_DEFAULT_TIMES, BEEP_DEFAULT_DURATION>>)
       ELSE UNCHANGED <<buzzerVars, seqVars, alert_log>>
    /\ door_events' = Append(door_events,
                             [closed |-> ~current_state, up |-> mqtt_connected])
    /\ event_at' = now

\* The body of the debounce check: the new state is taken over, published if
\* the session flag is up, and the default alert is started.
HallConfirm(current_state, ok) ==
    /\ last_hall_state' = current_state
    /\ last_interrupt_time' = now
    /\ IF ~current_state
       THEN /\ hall_publish("CLOSED", ok)
            /\ buzzer_start_beep(BEEP_DEFAULT_TIMES, BEEP_DEFAULT_DURATION)
            /\ alert_log' = Append(alert_log,
                                   <<BEEP_DEFAULT_TIMES, BEEP_DEFAULT_DURATION>>)
       ELSE /\ hall_publish("OPEN", ok)
            /\ buzzer_start_beep(BEEP_DEFAULT_TIMES, BEEP_DEFAULT_DURATION)
            /\ alert_log' = Append(alert_log,
                                   <<BEEP_DEFAULT_TIMES, BEEP_DEFAULT_DURATION>>)
    /\ door_events' = Append(door_events,
                             [closed |-> ~current_state, up |-> mqtt_connected])
    /\ event_at' = now

\* One iteration of hall_task's loop, up to its vTaskDelay.
hall_task(ok) ==
    /\ hall_pc = "ready"
    /\ hall_pc' = "delay"
    /\ IF hall_sensor_read # last_hall_state /\ DebounceElapsed(now)
       THEN HallConfirm(hall_sensor_read, ok)
       ELSE UNCHANGED <<hallVars, logVars, buzzerVars, seqVars>>

HallTask ==
    /\ \E ok \in BOOLEAN : hall_task(ok)
    /\ UNCHANGED <<now, raw, main_pc, mqttVars, led_pin, wifiVars, edge,
                   raw_changes, wrapVars,
                   extVars>>

\* One iteration of app_main's loop: buzzer_update, then vTaskDelay.
MainLoop ==
    /\ main_pc = "ready"
    /\ main_pc' = "delay"
    /\ buzzer_update
    /\ UNCHANGED <<now, raw, hallVars, hall_pc, mqttVars, led_pin, wifiVars,
                   logVars, edge, raw_changes, wrapVars,
                   extVars>>

\* Both loops sleep in vTaskDelay(pdMS_TO_TICKS(10)); the period ends and both
\* wake up.
Elapse(limit) ==
    /\ hall_pc = "delay"
    /\ main_pc = "delay"
    /\ now < BootMs + limit
    /\ now' = now + PollMs
    /\ hall_pc' = "ready"
    /\ main_pc' = "ready"
    /\ UNCHANGED <<buzzerVars, seqVars, raw, hallVars, mqttVars, led_pin,
                   wifiVars, logVars, edge, raw_changes, wrapVars,
                   extVars>>

\* The magnet moves: the level of HALL_PIN changes.
RawChange ==
    /\ raw_changes < MaxRawChanges
    /\ raw_changes' = raw_changes + 1
    /\ raw' = ~raw
    /\ edge' = [at |-> now, conf |-> last_hall_state, from |-> raw,
                nev |-> Len(door_events), npub |-> Len(published),
                nal |-> Len(alert_log), seen |-> TRUE]
    /\ UNCHANGED <<now, buzzerVars, seqVars, hallVars, pcVars, mqttVars, led_pin,
                   wifiVars, logVars, wrapVars,
                   extVars>>

(***************************************************************************)
(* The main program: mqtt_event_handler                                    *)
(***************************************************************************)
CharAt(s, i) == IF i <= Len(s) THEN s[i] ELSE "NUL"

\* strncmp(data, literal, data_len) == 0: the first data_len characters agree,
\* the literal being followed by its terminating NUL.
StrncmpEqual(data, literal) ==
    \A i \in 1..Len(data) : data[i] = CharAt(literal, i)

BEEP == <<"B", "E", "E", "P">>
STOP == <<"S", "T", "O", "P">>
Payloads == {BEEP, STOP, <<"B", "E", "E", "P", "X">>, <<"O", "N">>}

\* case MQTT_EVENT_CONNECTED without the write of mqtt_connected.
mqtt_event_connected_no_flag ==
    /\ mqtt_connected' = mqtt_connected
    /\ subscribed' = TRUE
    /\ led_pin' = 1
    /\ UNCHANGED <<mqtt_client, buzzerVars, seqVars>>

\* case MQTT_EVENT_CONNECTED without the call of esp_mqtt_client_subscribe.
mqtt_event_connected_no_subscribe ==
    /\ mqtt_connected' = TRUE
    /\ subscribed' = subscribed
    /\ led_pin' = 1
    /\ UNCHANGED <<mqtt_client, buzzerVars, seqVars>>

\* case MQTT_EVENT_CONNECTED: the flag is set, the command topic subscribed and
\* the LED lit.
mqtt_event_connected ==
    /\ mqtt_connected' = TRUE
    /\ subscribed' = TRUE
    /\ led_pin' = 1
    /\ UNCHANGED <<mqtt_client, buzzerVars, seqVars>>

\* case MQTT_EVENT_DISCONNECTED
mqtt_event_disconnected ==
    /\ mqtt_connected' = FALSE
    /\ led_pin' = 0
    /\ UNCHANGED <<mqtt_client, buzzerVars, seqVars>>

\* case MQTT_EVENT_DATA with the two calls exchanged.
mqtt_event_data_exchanged(data) ==
    /\ IF StrncmpEqual(data, BEEP)
       THEN buzzer_stop_beep
       ELSE IF StrncmpEqual(data, STOP)
            THEN buzzer_start_beep(BEEP_CMD_TIMES, BEEP_CMD_DURATION)
            ELSE UNCHANGED <<buzzerVars, seqVars>>
    /\ UNCHANGED <<mqttVars, led_pin>>

\* case MQTT_EVENT_DATA
mqtt_event_data(data) ==
    /\ IF StrncmpEqual(data, BEEP)
       THEN buzzer_start_beep(BEEP_CMD_TIMES, BEEP_CMD_DURATION)
       ELSE IF StrncmpEqual(data, STOP)
            THEN buzzer_stop_beep
            ELSE UNCHANGED <<buzzerVars, seqVars>>
    /\ UNCHANGED <<mqttVars, led_pin>>

otherThanMqtt == <<now, raw, hallVars, pcVars, wifiVars, logVars, edge,
                   raw_changes, wrapVars,
                   extVars>>

\* The broker accepts the connection: needs a client and the link.
MqttConnected ==
    /\ mqtt_client = "valid"
    /\ wifi_bit
    /\ ~mqtt_connected
    /\ mqtt_event_connected
    /\ UNCHANGED otherThanMqtt

\* The client reports the session lost (or a connect attempt failed).  The
\* broker forgets the subscription of a clean session.
MqttDisconnected ==
    /\ mqtt_client = "valid"
    /\ mqtt_event_disconnected
    /\ subscribed' = FALSE
    /\ UNCHANGED otherThanMqtt

\* A message arrives on the subscribed topic of an established session.
MqttData(payloads) ==
    /\ mqtt_client = "valid"
    /\ wifi_bit
    /\ mqtt_connected
    /\ subscribed
    /\ \E data \in payloads : mqtt_event_data(data)
    /\ UNCHANGED otherThanMqtt

(***************************************************************************)
(* wifi_manager.c: wifi_event_handler                                      *)
(***************************************************************************)

\* WIFI_EVENT_STA_DISCONNECTED without xEventGroupClearBits.
wifi_event_disconnected_keeps_bit ==
    /\ led_pin' = 0
    /\ wifi_bit' = wifi_bit
    /\ wifi_attempt' = TRUE

\* WIFI_EVENT_STA_DISCONNECTED
wifi_event_disconnected ==
    /\ led_pin' = 0
    /\ wifi_bit' = FALSE
    /\ wifi_attempt' = TRUE

\* IP_EVENT_STA_GOT_IP
wifi_event_got_ip ==
    /\ led_pin' = 1
    /\ wifi_bit' = TRUE
    /\ wifi_attempt' = FALSE

otherThanWifi == <<now, buzzerVars, seqVars, raw, hallVars, pcVars, mqttVars,
                   logVars, edge, raw_changes, wrapVars,
                   extVars>>

\* The link is lost, or a connect attempt fails.
WifiDisconnected ==
    /\ wifi_bit \/ wifi_attempt
    /\ wifi_event_disconnected
    /\ UNCHANGED otherThanWifi

\* A connect attempt succeeds and an address is acquired.
WifiGotIp ==
    /\ wifi_attempt
    /\ wifi_event_got_ip
    /\ UNCHANGED otherThanWifi

(***************************************************************************)
(* Spec: the firmware from the start of its tasks: the sensor, the alert   *)
(* it starts, and the link and session events.                             *)
(***************************************************************************)
InitTasks ==
    /\ now = BootMs
    /\ buzzer_mutex = "valid"
    /\ InitBuzzerStatics
    /\ InitMainStatics
    /\ InitWrapperStatics
    /\ InitObservation
    /\ InitUnstamped
    /\ raw \in BOOLEAN
    /\ hall_sensor_init
    /\ mqtt_client \in {"NULL", "valid"}
    /\ wifi_bit \in BOOLEAN
    /\ wifi_attempt = ~wifi_bit
    /\ led_pin = IF wifi_bit THEN 1 ELSE 0

Init == InitTasks

Tick == Elapse(MaxTicks * PollMs)

Next ==
    \/ HallTask
    \/ MainLoop
    \/ Tick
    \/ RawChange
    \/ MqttConnected
    \/ MqttDisconnected
    \/ WifiDisconnected
    \/ WifiGotIp

Spec == Init /\ [][Next]_vars

(***************************************************************************)
(* SpecAlert: the firmware with the link up and commands arriving.  The    *)
(* door closes once, as the tasks start; the session is established at any *)
(* time; "BEEP" commands and payloads that are ignored arrive at any time  *)
(* at which the door alert may still be running.  The clock runs until a   *)
(* door alert and a commanded sequence after it have ended.                *)
(***************************************************************************)
SequenceMs(times, duration) == 2 * times * duration

DoorAlertMs == SequenceMs(BEEP_DEFAULT_TIMES, BEEP_DEFAULT_DURATION)
CmdAlertMs  == SequenceMs(BEEP_CMD_TIMES, BEEP_CMD_DURATION)

InitAlert ==
    /\ InitTasks
    /\ raw = TRUE
    /\ mqtt_client = "valid"
    /\ wifi_bit

TickAlert == Elapse(DoorAlertMs + CmdAlertMs + MaxSlackTicks * PollMs)

DoorMoves ==
    /\ raw_changes = 0
    /\ now = BootMs
    /\ RawChange

Command ==
    /\ now <= BootMs + PollMs + DoorAlertMs
    /\ MqttData(Payloads \ {STOP})

NextAlert ==
    \/ HallTask
    \/ MainLoop
    \/ TickAlert
    \/ DoorMoves
    \/ MqttConnected
    \/ Command

SpecAlert == InitAlert /\ [][NextAlert]_vars

(***************************************************************************)
(* The MQTT wrapper module: mqtt_init, its event handler, mqtt_is_connected *)
(* and mqtt_publish.                                                       *)
(***************************************************************************)
otherThanWrapper == <<now, buzzerVars, seqVars, raw, hallVars, pcVars, mqttVars,
                      led_pin, wifiVars, logVars, edge, raw_changes,
                      extVars>>

\* mqtt_init.  outcome says which call fails, if any: xSemaphoreCreateMutex,
\* esp_mqtt_client_init or esp_mqtt_client_start.  The failure paths delete the
\* mutex, and destroy the client, without clearing the static handles.
mqtt_init(outcome) ==
    /\ w_mutex' = CASE outcome = "no_mutex" -> "NULL"
                    [] outcome = "ok"       -> "valid"
                    [] OTHER                -> "deleted"
    /\ w_client' = CASE outcome = "no_mutex" -> w_client
                     [] outcome = "no_client" -> "NULL"
                     [] outcome = "no_start"  -> "destroyed"
                     [] OTHER                 -> "valid"
    /\ UNCHANGED <<mqtt_connected_flag, w_pc, w_arg, w_ret, w_calls, w_published>>

\* The wrapper's mqtt_event_handler: CONNECTED sets the flag, DISCONNECTED and
\* ERROR clear it, every other event leaves it.
wrapper_event(event_id) ==
    /\ mqtt_connected_flag' =
          CASE event_id = "MQTT_EVENT_CONNECTED"    -> TRUE
            [] event_id = "MQTT_EVENT_DISCONNECTED" -> FALSE
            [] event_id = "MQTT_EVENT_ERROR"        -> FALSE
            [] OTHER                                -> mqtt_connected_flag
    /\ UNCHANGED <<w_client, w_mutex, w_pc, w_arg, w_ret, w_calls, w_published>>

WrapperEvents == {"MQTT_EVENT_CONNECTED", "MQTT_EVENT_DISCONNECTED",
                  "MQTT_EVENT_ERROR", "MQTT_EVENT_PUBLISHED"}

\* mqtt_is_connected with the flag left out: true once the mutex exists.
mqtt_is_connected_any_mutex == w_mutex # "NULL"

\* mqtt_is_connected, when it returns: false without a mutex, else the flag.
mqtt_is_connected ==
    IF w_mutex = "NULL" THEN FALSE ELSE mqtt_connected_flag

\* mqtt_publish up to its call of the transport: ESP_FAIL if the client is NULL
\* or mqtt_is_connected() is false.  xSemaphoreTake on a deleted mutex is
\* undefined: the task reads the flag all the same, or never returns.
mqtt_publish_check(data, returns) ==
    /\ w_calls' = w_calls + 1
    /\ IF w_client = "NULL"
       THEN /\ w_ret' = "ESP_FAIL"
            /\ UNCHANGED <<w_pc, w_arg>>
       ELSE IF w_mutex = "deleted" /\ ~returns
       THEN /\ w_pc' = "stuck"
            /\ UNCHANGED <<w_arg, w_ret>>
       ELSE IF ~mqtt_is_connected
       THEN /\ w_ret' = "ESP_FAIL"
            /\ UNCHANGED <<w_pc, w_arg>>
       ELSE /\ w_pc' = "send"
            /\ w_arg' = data
            /\ UNCHANGED w_ret
    /\ UNCHANGED <<w_client, w_mutex, mqtt_connected_flag, w_published>>

\* mqtt_publish from esp_mqtt_client_publish on: ok is whether the transport
\* answers a message id (>= 0).
mqtt_publish_send(ok) ==
    /\ w_published' = Append(w_published, w_arg)
    /\ w_ret' = IF ok THEN "ESP_OK" ELSE "ESP_FAIL"
    /\ w_pc' = "idle"
    /\ w_arg' = "none"
    /\ UNCHANGED <<w_client, w_mutex, mqtt_connected_flag, w_calls>>

\* mqtt_init is called while the module holds no live client.
WrapInit ==
    /\ w_client # "valid"
    /\ w_pc = "idle"
    /\ \E outcome \in {"no_mutex", "no_client", "no_start", "ok"} : mqtt_init(outcome)
    /\ UNCHANGED otherThanWrapper

\* The MQTT task delivers an event of the live client.
WrapEvent ==
    /\ w_client = "valid"
    /\ \E event_id \in WrapperEvents : wrapper_event(event_id)
    /\ UNCHANGED otherThanWrapper

\* A task calls mqtt_publish.
WrapPublishCheck ==
    /\ w_pc = "idle"
    /\ w_calls < MaxCalls
    /\ \E data \in {"OPEN", "CLOSED"}, returns \in BOOLEAN :
          mqtt_publish_check(data, returns)
    /\ UNCHANGED otherThanWrapper

WrapPublishSend ==
    /\ w_pc = "send"
    /\ \E ok \in BOOLEAN : mqtt_publish_send(ok)
    /\ UNCHANGED otherThanWrapper

(***************************************************************************)
(* SpecPublish: the two publish paths side by side: hall_task of the main  *)
(* program with its session events, and the wrapper module driven through  *)
(* its API.                                                                *)
(***************************************************************************)
InitPublish ==
    /\ InitTasks
    /\ wifi_bit

TickPublish == Elapse(MaxPubTicks * PollMs)

NextPublish ==
    \/ HallTask
    \/ MainLoop
    \/ TickPublish
    \/ RawChange
    \/ MqttConnected
    \/ MqttDisconnected
    \/ WrapInit
    \/ WrapEvent
    \/ WrapPublishCheck
    \/ WrapPublishSend

SpecPublish == InitPublish /\ [][NextPublish]_vars

(***************************************************************************)
(* Claims about commands that arrive during a door alert (SpecAlert).      *)
(***************************************************************************)

\* The sequence now observed was started by the "BEEP" command while a door
\* alert was active, and only buzzer_update and the clock have acted on the
\* buzzer since.
BeepReplacedDoorAlert ==
    /\ seq_args = <<BEEP_CMD_TIMES, BEEP_CMD_DURATION>>
    /\ seq_prev = <<BEEP_DEFAULT_TIMES, BEEP_DEFAULT_DURATION>>
    /\ ~seq_stopped

\* C6: a "BEEP" command dispatched at any point of an active door alert
\* replaces it completely: the sequencer holds 5 and 300 ms, the output is high
\* when the call returns, the pin has changed 2 * beep_count times plus one for
\* a beep that is sounding (the count restarted from 0), every level lasts
\* 300 ms up to the polling period, and the sequence ends, inactive and low,
\* after exactly 10 changes counting the initial rise.
C6_BeepReplacesDoorAlert ==
    BeepReplacedDoorAlert =>
        /\ beep_times = BEEP_CMD_TIMES
        /\ beep_duration = BEEP_CMD_DURATION
        /\ seq_toggles >= 1
        /\ beep_start_time >= seq_at + (seq_toggles - 1) * BEEP_CMD_DURATION
        /\ beep_start_time <= seq_at + (seq_toggles - 1) * (BEEP_CMD_DURATION + PollMs)
        /\ beep_active =>
              /\ seq_toggles = 2 * beep_count + buzzer_pin
              /\ seq_toggles < 2 * BEEP_CMD_TIMES
        /\ ~beep_active =>
              /\ seq_toggles = 2 * BEEP_CMD_TIMES
              /\ buzzer_pin = 0

\* C6 witness: the command arrived after the door alert had counted its first
\* beep, and the sequence of 5 beeps it started has run to its end.
C6_Witness ==
    /\ BeepReplacedDoorAlert
    /\ alert_log # <<>>
    /\ seq_at >= BootMs + 2 * BEEP_DEFAULT_DURATION
    /\ ~beep_active
    /\ seq_toggles = 2 * BEEP_CMD_TIMES

(***************************************************************************)
(* Claims about the sensor, the session and the alert (Spec).              *)
(***************************************************************************)

\* C1: the confirmed door state changes only after the raw input has been at
\* the new level, without a break, for at least HALL_DEBOUNCE_MS (edge.at is
\* the time of the last change of the raw input, 0 if it has not changed since
\* power-up); a shorter pulse changes nothing.
C1_ChangeOnlyAfterStableLevel ==
    [][last_hall_state' # last_hall_state
          => now - edge.at >= HALL_DEBOUNCE_MS]_vars

\* C2: the session flag mqtt_connected is true only while WIFI_CONNECTED_BIT is
\* set, so it is false once WIFI_EVENT_STA_DISCONNECTED has been handled.
C2_SessionOnlyWhileLink ==
    mqtt_connected => wifi_bit

\* The raw input went from HIGH to LOW and has stayed LOW for 150 ms or more.
HeldLow ==
    /\ edge.seen
    /\ edge.from
    /\ ~raw
    /\ now - edge.at >= HALL_DEBOUNCE_MS + HALL_DEBOUNCE_MS \div 2

\* Since that edge exactly one transition was confirmed, to Closed, with one
\* "CLOSED" publish if the session flag was up and none otherwise, and one
\* buzzer_start_beep with the default parameters.
OneClosedSinceEdge ==
    /\ Len(door_events) = edge.nev + 1
    /\ door_events[edge.nev + 1].closed
    /\ Len(alert_log) = edge.nal + 1
    /\ alert_log[edge.nal + 1] = <<BEEP_DEFAULT_TIMES, BEEP_DEFAULT_DURATION>>
    /\ IF door_events[edge.nev + 1].up
       THEN /\ Len(published) = edge.npub + 1
            /\ published[edge.npub + 1].payload = "CLOSED"
       ELSE Len(published) = edge.npub

\* C7 as stated: whenever the raw input went from HIGH to LOW and stayed LOW
\* for 150 ms, exactly one transition to Closed was confirmed, published once
\* if the session flag was up, and alerted once with the default parameters.
C7_HeldLowGivesOneClosed ==
    HeldLow => OneClosedSinceEdge

\* C7 amended: the same, for an edge that found the confirmed state Open.
C7_HeldLowFromOpenGivesOneClosed ==
    (HeldLow /\ edge.conf) => OneClosedSinceEdge

\* C7 witness: the edge found the door confirmed Open inside the 100 ms that
\* follow a confirmation, the transition to Closed was confirmed later and
\* published, and the input has been LOW for 150 ms.
C7_Witness ==
    /\ HeldLow
    /\ edge.conf
    /\ edge.nev >= 1
    /\ last_interrupt_time > edge.at + PollMs
    /\ Len(published) = edge.npub + 1

\* C8: every step that changes the confirmed door state starts the default
\* alert exactly once, whatever became of the publish: the sequencer is armed
\* with 3 beeps of 200 ms from count 0 with the output high, and one call is
\* logged; and the alert is started by no other step of hall_task.
C8_TransitionStartsDefaultAlert ==
    [][/\ last_hall_state' # last_hall_state =>
             /\ alert_log' = Append(alert_log,
                                    <<BEEP_DEFAULT_TIMES, BEEP_DEFAULT_DURATION>>)
             /\ beep_active'
             /\ beep_times' = BEEP_DEFAULT_TIMES
             /\ beep_duration' = BEEP_DEFAULT_DURATION
             /\ beep_count' = 0
             /\ beep_start_time' = now
             /\ buzzer_pin' = 1
       /\ alert_log' # alert_log => last_hall_state' # last_hall_state]_vars

\* C8 witness: three transitions were confirmed, one with the session flag
\* down, one whose publish the transport accepted and one whose publish it
\* refused, and three alerts were started.
C8_Witness ==
    /\ Len(door_events) = 3
    /\ Len(alert_log) = 3
    /\ \E i \in 1..3 : ~door_events[i].up
    /\ \E i \in 1..Len(published) : published[i].ok
    /\ \E i \in 1..Len(published) : ~published[i].ok

\* The payloads hall_task publishes for a sequence of confirmed transitions:
\* one for each transition confirmed while the session flag was up.
RECURSIVE PayloadsFor(_)
PayloadsFor(events) ==
    IF events = <<>>
    THEN <<>>
    ELSE (IF Head(events).up
          THEN <<IF Head(events).closed THEN "CLOSED" ELSE "OPEN">>
          ELSE <<>>) \o PayloadsFor(Tail(events))

\* C10: a transition confirmed while the session flag is down is never
\* published: at every moment the publish attempts made are exactly the ones
\* for the transitions confirmed with the flag up, in order, so there are never
\* more attempts than such transitions.
C10_DownTransitionsNeverPublished ==
    [i \in 1..Len(published) |-> published[i].payload] = PayloadsFor(door_events)

\* C10 witness: the first transition was confirmed with the session down, the
\* session came up, a second transition was confirmed and published, and the
\* first one still is not.
C10_Witness ==
    /\ Len(door_events) = 2
    /\ ~door_events[1].up
    /\ door_events[2].up
    /\ Len(published) = 1
    /\ mqtt_connected
    /\ now >= last_interrupt_time + 2 * PollMs

(***************************************************************************)
(* Claims about the two publish paths (SpecPublish).                       *)
(***************************************************************************)

\* C9: a publish requested while the session is not up makes no transport call
\* and fails.  A step that calls mqtt_publish while the client is NULL or
\* mqtt_connected_flag is false hands nothing to esp_mqtt_client_publish, does
\* not go on to the transport call, and, when it returns, returns ESP_FAIL; the
\* wrapper hands data to the transport only from behind that check; and
\* hall_task hands a payload to the transport only in a step that finds
\* mqtt_connected true and the client non-NULL.
C9_NoTransportCallUnlessUp ==
    [][/\ (w_calls' # w_calls /\ (w_client = "NULL" \/ ~mqtt_connected_flag)) =>
             /\ w_published' = w_published
             /\ w_pc' # "send"
             /\ w_pc' = "idle" => w_ret' = "ESP_FAIL"
       /\ w_published' # w_published => w_pc = "send"
       /\ published' # published => (mqtt_connected /\ mqtt_client # "NULL")]_vars

\* C9 witness: mqtt_publish was called on an initialised wrapper whose flag was
\* down and returned ESP_FAIL with nothing handed to the transport, and
\* hall_task confirmed a transition with the session flag down and published
\* nothing.
C9_Witness ==
    /\ w_client = "valid"
    /\ w_mutex = "valid"
    /\ ~mqtt_connected_flag
    /\ w_calls = 1
    /\ w_pc = "idle"
    /\ w_ret = "ESP_FAIL"
    /\ w_published = <<>>
    /\ door_events # <<>>
    /\ published = <<>>

(***************************************************************************)
(* Claims about the events of the sensor monitor (Spec).                   *)
(***************************************************************************)

\* C11: hall_task never reports the state it already holds.  The confirmed
\* state starts Open, so the confirmed transitions are to Closed, to Open, to
\* Closed and so on, strictly alternating, and the confirmed state has changed
\* exactly as often as events were reported: it is Open after an even number of
\* events and Closed after an odd number.
C11_EventsAlternate ==
    /\ \A i \in 1..Len(door_events) : door_events[i].closed = (i % 2 = 1)
    /\ last_hall_state = (Len(door_events) % 2 = 0)

\* C11 witness: three transitions were confirmed, to Closed, to Open and to
\* Closed, while the raw input changed a fourth time without being confirmed.
C11_Witness ==
    /\ Len(door_events) = 3
    /\ door_events[3].closed
    /\ raw # last_hall_state

(***************************************************************************)
(* SpecCommand: the firmware with the link up, the door closing once as    *)
(* the tasks start, and messages of every kind of payload arriving on the  *)
(* command topic, each one observed.                                       *)
(***************************************************************************)
AllPayloads == Payloads \cup {<<>>, <<"B">>, <<"S", "T", "O">>}

InitCommand == InitAlert

TickCommand == Elapse(MaxCmdTicks * PollMs)

\* A message arrives on the subscribed topic and is noted.
CommandObserved ==
    /\ cmd.n < MaxCommands
    /\ mqtt_client = "valid"
    /\ wifi_bit
    /\ mqtt_connected
    /\ subscribed
    /\ \E data \in AllPayloads :
          /\ mqtt_event_data(data)
          /\ cmd' = [n |-> cmd.n + 1, data |-> data]
    /\ UNCHANGED <<now, raw, hallVars, pcVars, wifiVars, logVars, edge,
                   raw_changes, wrapVars, linkVars, asyncVars, syncVars,
                   sensorVars, callVars, level_at, moreVars>>

NextCommand ==
    \/ HallTask
    \/ MainLoop
    \/ TickCommand
    \/ DoorMoves
    \/ MqttConnected
    \/ CommandObserved

SpecCommand == InitCommand /\ [][NextCommand]_vars

(***************************************************************************)
(* Claims about inbound commands (SpecCommand).                            *)
(***************************************************************************)

\* C12: a message whose payload is exactly "BEEP" makes the one call
\* buzzer_start_beep(5, 300): the sequencer is armed with 5 and 300 ms from
\* count 0 at the present time with the output high.  A message whose payload is
\* exactly "STOP" makes the one call buzzer_stop_beep: the sequencer is inactive
\* with the output low and its parameters are left.  Neither touches anything
\* but the buzzer.
C12_ExactTokensMapToCalls ==
    [][cmd'.n # cmd.n =>
          /\ cmd'.data = BEEP =>
                /\ beep_active'
                /\ beep_times' = BEEP_CMD_TIMES
                /\ beep_duration' = BEEP_CMD_DURATION
                /\ beep_count' = 0
                /\ beep_start_time' = now
                /\ buzzer_pin' = 1
                /\ buzzer_state'
                /\ ~seq_stopped'
          /\ cmd'.data = STOP =>
                /\ ~beep_active'
                /\ buzzer_pin' = 0
                /\ ~buzzer_state'
                /\ beep_count' = 0
                /\ seq_stopped'
                /\ UNCHANGED <<beep_times, beep_duration, beep_start_time>>
          /\ cmd'.data \in {BEEP, STOP} =>
                UNCHANGED <<mqttVars, led_pin, hallVars, logVars, now>>]_vars

\* C12 witness: "BEEP" started the 5 x 300 ms sequence and "STOP", the second
\* message, has silenced it.
C12_Witness ==
    /\ cmd = [n |-> 2, data |-> STOP]
    /\ seq_args = <<BEEP_CMD_TIMES, BEEP_CMD_DURATION>>
    /\ seq_stopped
    /\ ~beep_active
    /\ buzzer_pin = 0

\* C13: a message whose payload is neither exactly "BEEP" nor exactly "STOP"
\* (the empty payload, a proper prefix, an extension, any other text) leaves the
\* alert sequencer as it is.
C13_OtherPayloadsIgnored ==
    [][(cmd'.n # cmd.n /\ cmd'.data \notin {BEEP, STOP}) =>
          UNCHANGED <<buzzerVars, seqVars>>]_vars

(***************************************************************************)
(* Claims about the session and the subscription (Spec).                   *)
(***************************************************************************)

\* C14: every step in which the session comes up, the first time and after
\* every disconnect, ends with the command topic subscribed: the subscribe is
\* issued inside the handler of MQTT_EVENT_CONNECTED, before any other event is
\* handled, and while the session is down no subscription of an earlier
\* connection is held.
C14_ConnectedSubscribes ==
    [][/\ (~mqtt_connected /\ mqtt_connected') => (~subscribed /\ subscribed')
       /\ ~mqtt_connected' => ~subscribed']_vars

\* C14 witness: a transition was published in a first connection, the next one
\* was confirmed with the session down, and the session is up again with the
\* topic subscribed.
C14_Witness ==
    /\ Len(door_events) = 2
    /\ door_events[1].up
    /\ ~door_events[2].up
    /\ mqtt_connected
    /\ subscribed

(***************************************************************************)
(* wifi_manager.c: wifi_init, wifi_monitor_task and wifi_is_connected      *)
(***************************************************************************)

\* wifi_is_connected() once the event group exists: WIFI_CONNECTED_BIT.
wifi_is_connected == wifi_bit

\* WIFI_EVENT_STA_START: esp_wifi_connect()
wifi_event_start ==
    /\ wifi_attempt' = TRUE
    /\ UNCHANGED <<wifi_bit, led_pin>>

\* The monitor's check with the test inverted.
wifi_monitor_check_inverted ==
    /\ wifi_attempt' = (wifi_attempt \/ wifi_is_connected)
    /\ run' = [by |-> "monitor", calls |-> IF wifi_is_connected THEN 1 ELSE 0]
    /\ mon_wait' = MONITOR_CHECK_INTERVAL
    /\ mon_checked' = TRUE
    /\ UNCHANGED <<wifi_bit, led_pin>>

\* One round of wifi_monitor_task after its delay: esp_wifi_connect() if the
\* link is not connected; then the next delay starts.
wifi_monitor_check ==
    /\ wifi_attempt' = (wifi_attempt \/ ~wifi_is_connected)
    /\ run' = [by |-> "monitor", calls |-> IF wifi_is_connected THEN 0 ELSE 1]
    /\ mon_wait' = MONITOR_CHECK_INTERVAL
    /\ mon_checked' = TRUE
    /\ UNCHANGED <<wifi_bit, led_pin>>

(***************************************************************************)
(* SpecLink: the link supervisor from esp_wifi_start on: the events of the *)
(* link, wifi_init's wait, the monitor task and the clock.                 *)
(***************************************************************************)
otherThanLink == <<now, buzzerVars, seqVars, raw, hallVars, pcVars, mqttVars,
                   logVars, edge, raw_changes, wrapVars, cmdVars, asyncVars,
                   syncVars, sensorVars, callVars, level_at, moreVars>>

Min(a, b) == IF a < b THEN a ELSE b

LinkStepMs   == MONITOR_CHECK_INTERVAL \div LinkSteps
DownQuietCap == MONITOR_CHECK_INTERVAL + WifiInitWaitMs + LinkStepMs

InitLink ==
    /\ now = 0
    /\ buzzer_mutex = "NULL"
    /\ InitBuzzerStatics
    /\ InitMainStatics
    /\ InitWrapperStatics
    /\ raw = TRUE
    /\ mqtt_client = "NULL"
    /\ led_pin = 0
    /\ wifi_bit = FALSE
    /\ wifi_attempt = FALSE
    /\ cmd = [n |-> 0, data |-> <<>>]
    /\ mon_on = FALSE
    /\ init_left = WifiInitWaitMs
    /\ mon_wait = 0
    /\ mon_checked = FALSE
    /\ down_quiet = 0
    /\ link_last = "none"
    /\ run = [by |-> "none", calls |-> 0]
    /\ InitPrototypes
    /\ InitSensorStatics
    /\ InitNoCalls
    /\ InitBooted
    /\ InitUnstamped

\* WIFI_EVENT_STA_START, posted by esp_wifi_start, is handled.
LinkStart ==
    /\ run.by = "none"
    /\ wifi_event_start
    /\ run' = [by |-> "start", calls |-> 1]
    /\ down_quiet' = 0
    /\ UNCHANGED <<mon_on, init_left, mon_wait, mon_checked, link_last,
                   otherThanLink>>

\* The link is lost, or a connect attempt fails, and the event is delivered.
LinkDisconnected ==
    /\ run.by # "none"
    /\ wifi_bit \/ wifi_attempt
    /\ wifi_event_disconnected
    /\ link_last' = "disconnected"
    /\ run' = [by |-> "disconnected", calls |-> 1]
    /\ down_quiet' = 0
    /\ UNCHANGED <<mon_on, init_left, mon_wait, mon_checked, otherThanLink>>

\* A connect attempt succeeds and an address is acquired.
LinkGotIp ==
    /\ wifi_attempt
    /\ wifi_event_got_ip
    /\ link_last' = "got_ip"
    /\ run' = [by |-> "got_ip", calls |-> 0]
    /\ down_quiet' = 0
    /\ UNCHANGED <<mon_on, init_left, mon_wait, mon_checked, otherThanLink>>

\* A connect attempt ends and no event reaches the handler.
AttemptLost ==
    /\ wifi_attempt
    /\ ~wifi_bit
    /\ wifi_attempt' = FALSE
    /\ UNCHANGED <<wifi_bit, led_pin, linkVars, otherThanLink>>

\* wifi_init's xEventGroupWaitBits returns, on the bit or after 10 s, and the
\* monitor task is created.
InitWaitEnds ==
    /\ ~mon_on
    /\ run.by # "none"
    /\ wifi_bit \/ init_left = 0
    /\ mon_on' = TRUE
    /\ mon_wait' = MONITOR_CHECK_INTERVAL
    /\ led_pin' = IF wifi_bit THEN 1 ELSE led_pin
    /\ UNCHANGED <<wifi_bit, wifi_attempt, init_left, mon_checked, down_quiet,
                   link_last, run, otherThanLink>>

\* The monitor's delay is over.
MonitorCheck ==
    /\ mon_on
    /\ mon_wait = 0
    /\ wifi_monitor_check
    /\ down_quiet' = IF wifi_is_connected THEN down_quiet ELSE 0
    /\ UNCHANGED <<mon_on, init_left, link_last, otherThanLink>>

\* Time passes, up to the next moment at which a delay ends.
LinkTick ==
    /\ run.by # "none"
    /\ IF mon_on THEN mon_wait > 0 ELSE (init_left > 0 /\ ~wifi_bit)
    /\ LET d == Min(LinkStepMs, IF mon_on THEN mon_wait ELSE init_left)
       IN /\ mon_wait' = IF mon_on THEN mon_wait - d ELSE mon_wait
          /\ init_left' = IF mon_on THEN init_left ELSE init_left - d
          /\ down_quiet' = IF wifi_bit THEN 0 ELSE Min(DownQuietCap, down_quiet + d)
    /\ UNCHANGED <<wifi_bit, wifi_attempt, led_pin, mon_on, mon_checked, link_last,
                   run, otherThanLink>>

NextLink ==
    \/ LinkStart
    \/ LinkDisconnected
    \/ LinkGotIp
    \/ AttemptLost
    \/ InitWaitEnds
    \/ MonitorCheck
    \/ LinkTick

\* The tasks and the event loop are scheduled, the clock advances, and
\* association succeeds eventually if it is attempted again and again.
FairLink ==
    /\ WF_vars(LinkStart)
    /\ WF_vars(InitWaitEnds)
    /\ WF_vars(MonitorCheck)
    /\ WF_vars(LinkTick)
    /\ SF_vars(LinkGotIp)

SpecLink == InitLink /\ [][NextLink]_vars /\ FairLink

(***************************************************************************)
(* Claims about the link supervisor (SpecLink).                            *)
(***************************************************************************)

\* C15: wifi_is_connected() is true exactly when the last link event handled
\* is IP_EVENT_STA_GOT_IP, with no WIFI_EVENT_STA_DISCONNECTED since; and a
\* handler run for WIFI_EVENT_STA_DISCONNECTED leaves the status down and has
\* called esp_wifi_connect() once.
C15_StatusFollowsLinkEvents ==
    /\ wifi_is_connected = (link_last = "got_ip")
    /\ run.by = "disconnected" =>
          /\ ~wifi_is_connected
          /\ run.calls = 1

\* C15 witness: WIFI_EVENT_STA_DISCONNECTED was the last event handled, the
\* handler's reconnect attempt ended without an event, time has passed and the
\* status is down.
C15_Witness ==
    /\ link_last = "disconnected"
    /\ run.by = "disconnected"
    /\ mon_on
    /\ ~wifi_attempt
    /\ ~wifi_is_connected
    /\ led_pin = 0
    /\ down_quiet > 0

\* C16 as stated: whenever the link is down, the last esp_wifi_connect lies at
\* most one fallback interval (60 s) back.
C16_AttemptWithinInterval ==
    ~wifi_is_connected => down_quiet <= MONITOR_CHECK_INTERVAL

\* How long the link can have been down without a connect attempt: the time
\* since the monitor's last check once it has made one; before that, the time
\* since the monitor task was created plus wifi_init's wait that preceded it.
QuietBound ==
    IF mon_checked THEN MONITOR_CHECK_INTERVAL - mon_wait
    ELSE IF mon_on THEN MONITOR_CHECK_INTERVAL - mon_wait + WifiInitWaitMs
    ELSE WifiInitWaitMs - init_left

\* C16 amended: the supervisor never gives up.  While the link is down the
\* last connect attempt lies no further back than the monitor's last check (at
\* most 60 s), or, until the monitor's first check, no further back than the
\* creation of the monitor task plus wifi_init's wait of 10 s; the monitor's
\* delay never exceeds 60 s; a check that finds the link down calls
\* esp_wifi_connect, one that finds it up does not; and, association succeeding
\* eventually, a link that is down comes up.
C16_FallbackNeverGivesUp ==
    /\ [](~wifi_is_connected => down_quiet <= QuietBound)
    /\ [](mon_on => mon_wait \in 0..MONITOR_CHECK_INTERVAL)
    /\ [][(mon_on /\ mon_wait = 0 /\ mon_wait' # 0) =>
             IF wifi_is_connected
             THEN run'.calls = 0 /\ UNCHANGED wifi_attempt
             ELSE run'.calls = 1 /\ wifi_attempt' /\ down_quiet' = 0]_vars
    /\ (~wifi_is_connected ~> wifi_is_connected)

\* C16 witness: no event has been delivered since a disconnect; the monitor's
\* last check found the link down and issued a connect, and a full interval
\* has passed since, so the next check is due.
C16_Witness ==
    /\ link_last = "disconnected"
    /\ run = [by |-> "monitor", calls |-> 1]
    /\ ~wifi_is_connected
    /\ mon_wait = 0
    /\ down_quiet = MONITOR_CHECK_INTERVAL


(***************************************************************************)
(* The asynchronous prototype sketch (Prototype, AsyncMqttClient).         *)
(*                                                                         *)
(* loop() runs once per delay(100).  The client library delivers           *)
(* onMqttConnect and onMqttDisconnect from its own task; an attempt that   *)
(* the network leaves unanswered delivers nothing.  Times are kept as      *)
(* elapsed milliseconds and stop counting one step past the limit they     *)
(* are compared with.                                                      *)
(***************************************************************************)
MqttConnectTimeoutMs   == 10000
MqttCheckIntervalMs    == 5000
LoopDelayMs            == 100
DisconnectRetryDelayMs == 5000
SetupDelayMs           == 1000

ConnectAgeCap == MqttConnectTimeoutMs + LoopDelayMs
CheckAgeCap   == MqttCheckIntervalMs + LoopDelayMs
FlagLagCap    == CheckAgeCap + LoopDelayMs

otherThanAsync == <<now, buzzerVars, seqVars, raw, hallVars, pcVars, mqttVars,
                    led_pin, wifiVars, logVars, edge, raw_changes, wrapVars,
                    cmdVars, linkVars, syncVars, sensorVars, callVars,
                    level_at, moreVars>>

\* mqttClient.connect(): a connected client ignores the call.
asyncClientConnect == connectPending \/ ~clientConnected

\* The timeout test of loop(): mqttConnecting is cleared, and is not set
\* again by the retry.
LoopTimeout(timeout, retry) == IF timeout THEN FALSE ELSE mqttConnecting

\* loop(), the session supervisor part, followed by delay(100).
asyncLoop ==
    LET timeout == mqttConnecting /\ sinceConnectStart > MqttConnectTimeoutMs
        retry   == timeout /\ wifiConnected
        check   == sinceMqttCheck > MqttCheckIntervalMs
        changed == check /\ clientConnected # mqttConnected
        again   == changed /\ ~clientConnected /\ wifiConnected
        called  == retry \/ again
    IN  /\ mqttConnected' = IF changed THEN clientConnected ELSE mqttConnected
        /\ mqttConnecting' = IF changed THEN again
                             ELSE LoopTimeout(timeout, retry)
        /\ sinceConnectStart' =
              IF called THEN LoopDelayMs
              ELSE Min(sinceConnectStart + LoopDelayMs, ConnectAgeCap)
        /\ sinceMqttCheck' =
              IF check THEN LoopDelayMs
              ELSE Min(sinceMqttCheck + LoopDelayMs, CheckAgeCap)
        /\ connectPending' = IF called THEN asyncClientConnect
                             ELSE connectPending
        /\ connect_call' = called
        /\ subscribe_call' = FALSE
        /\ relink' = IF called THEN "none" ELSE relink
        /\ flag_lag' = IF ~mqttConnected' \/ clientConnected THEN -1
                       ELSE IF flag_lag < 0 THEN flag_lag
                       ELSE Min(flag_lag + LoopDelayMs, FlagLagCap)
        /\ UNCHANGED <<wifiConnected, clientConnected>>

onMqttConnect ==
    /\ mqttConnecting' = FALSE
    /\ subscribe_call' = TRUE

\* onMqttDisconnect up to its delay(5000).
onMqttDisconnect ==
    disconnectDelay' = IF wifiConnected THEN DisconnectRetryDelayMs ELSE -1

\* State after setup(): setup_wifi has waited for the link and called
\* mqttClient.connect() before the server was set, so that call may have
\* started no attempt.
InitAsync ==
    /\ now = 0
    /\ buzzer_mutex = "NULL"
    /\ InitBuzzerStatics
    /\ InitMainStatics
    /\ InitWrapperStatics
    /\ raw = TRUE
    /\ mqtt_client = "NULL"
    /\ led_pin = 0
    /\ wifi_bit = FALSE
    /\ wifi_attempt = FALSE
    /\ cmd = [n |-> 0, data |-> <<>>]
    /\ mon_on = FALSE
    /\ init_left = 0
    /\ mon_wait = 0
    /\ mon_checked = FALSE
    /\ down_quiet = 0
    /\ link_last = "none"
    /\ run = [by |-> "none", calls |-> 0]
    /\ wifiConnected = TRUE
    /\ clientConnected = FALSE
    /\ connectPending \in BOOLEAN
    /\ mqttConnected = FALSE
    /\ mqttConnecting = TRUE
    /\ sinceConnectStart = 0
    /\ sinceMqttCheck \in {SetupDelayMs, CheckAgeCap}
    /\ disconnectDelay = -1
    /\ connect_call = TRUE
    /\ subscribe_call = FALSE
    /\ relink = "none"
    /\ flag_lag = -1
    /\ InitSketchStatics
    /\ InitSensorStatics
    /\ InitNoCalls
    /\ InitBooted
    /\ InitUnstamped

\* One iteration of loop(); the callback's delay runs beside it.
AsyncLoop ==
    /\ disconnectDelay # 0
    /\ asyncLoop
    /\ disconnectDelay' = IF disconnectDelay < 0 THEN -1
                          ELSE disconnectDelay - LoopDelayMs
    /\ UNCHANGED otherThanAsync

\* onMqttDisconnect after its delay(5000): mqttClient.connect().
DisconnectDelayEnds ==
    /\ disconnectDelay = 0
    /\ disconnectDelay' = -1
    /\ connectPending' = asyncClientConnect
    /\ connect_call' = TRUE
    /\ subscribe_call' = FALSE
    /\ relink' = "none"
    /\ UNCHANGED <<wifiConnected, clientConnected, mqttConnected,
                   mqttConnecting, sinceConnectStart, sinceMqttCheck, flag_lag>>
    /\ UNCHANGED otherThanAsync

\* The broker accepts the attempt: the library calls onMqttConnect.
BrokerAccepts ==
    /\ connectPending
    /\ wifiConnected
    /\ disconnectDelay < 0
    /\ connectPending' = FALSE
    /\ clientConnected' = TRUE
    /\ onMqttConnect
    /\ connect_call' = FALSE
    /\ relink' = "none"
    /\ flag_lag' = -1
    /\ UNCHANGED <<wifiConnected, mqttConnected, sinceConnectStart,
                   sinceMqttCheck, disconnectDelay>>
    /\ UNCHANGED otherThanAsync

\* The attempt is refused or reset: the library calls onMqttDisconnect.
AttemptFails ==
    /\ connectPending
    /\ disconnectDelay < 0
    /\ connectPending' = FALSE
    /\ onMqttDisconnect
    /\ connect_call' = FALSE
    /\ subscribe_call' = FALSE
    /\ UNCHANGED <<wifiConnected, clientConnected, mqttConnected,
                   mqttConnecting, sinceConnectStart, sinceMqttCheck, relink,
                   flag_lag>>
    /\ UNCHANGED otherThanAsync

\* The client loses its session: the library calls onMqttDisconnect.
SessionLost ==
    /\ clientConnected
    /\ disconnectDelay < 0
    /\ clientConnected' = FALSE
    /\ onMqttDisconnect
    /\ connect_call' = FALSE
    /\ subscribe_call' = FALSE
    /\ relink' = IF wifiConnected THEN relink ELSE "lost"
    /\ flag_lag' = IF mqttConnected THEN 0 ELSE -1
    /\ UNCHANGED <<wifiConnected, connectPending, mqttConnected,
                   mqttConnecting, sinceConnectStart, sinceMqttCheck>>
    /\ UNCHANGED otherThanAsync

AsyncLinkDown ==
    /\ wifiConnected
    /\ wifiConnected' = FALSE
    /\ connect_call' = FALSE
    /\ subscribe_call' = FALSE
    /\ UNCHANGED <<clientConnected, connectPending, mqttConnected,
                   mqttConnecting, sinceConnectStart, sinceMqttCheck,
                   disconnectDelay, relink, flag_lag>>
    /\ UNCHANGED otherThanAsync

AsyncLinkUp ==
    /\ ~wifiConnected
    /\ wifiConnected' = TRUE
    /\ connect_call' = FALSE
    /\ subscribe_call' = FALSE
    /\ relink' = IF relink = "lost" THEN "back" ELSE relink
    /\ UNCHANGED <<clientConnected, connectPending, mqttConnected,
                   mqttConnecting, sinceConnectStart, sinceMqttCheck,
                   disconnectDelay, flag_lag>>
    /\ UNCHANGED otherThanAsync

NextAsync ==
    \/ AsyncLoop
    \/ DisconnectDelayEnds
    \/ BrokerAccepts
    \/ AttemptFails
    \/ SessionLost
    \/ AsyncLinkDown
    \/ AsyncLinkUp

\* loop() and the callback task keep running; the network owes nothing.
FairAsync == WF_vars(AsyncLoop) /\ WF_vars(DisconnectDelayEnds)

SpecAsync == InitAsync /\ [][NextAsync]_vars /\ FairAsync


\* C17 (as claimed): whenever the link is Up and the session is Down, a
\* session connect attempt is issued again sooner or later (an attempt left
\* unanswered is abandoned after the 10 s timeout and a new one started, for
\* every attempt), unless the session comes Up or the link goes Down first.
C17_StalledAttemptAlwaysRetried ==
    (wifiConnected /\ ~clientConnected)
        ~> (connect_call \/ clientConnected \/ ~wifiConnected)

\* C18 (as claimed): once the client has lost the session, mqttConnected is
\* Down within one liveness-check interval; a session lost while the link was
\* down is followed, after the link is back, by a new connect attempt; and
\* every new session subscribes to the command topic.
C18_LinkReturnReconnects ==
    /\ [](flag_lag <= CheckAgeCap)
    /\ [][BrokerAccepts => subscribe_call']_vars
    /\ (relink = "back") ~> (relink = "none")


(***************************************************************************)
(* The synchronous prototype sketch (Prototype, PubSubClient).             *)
(*                                                                         *)
(* One cooperative loop(): the 5 s session check with reconnect(), then    *)
(* client.loop(), the sensor, handleBeep and delay(100).  reconnect()      *)
(* returns only when client.connected() holds.                             *)
(***************************************************************************)
SyncCheckIntervalMs  == 5000
SyncLoopDelayMs      == 100
SyncRetryDelayMs     == 5000
SyncWifiPollMs       == 500
SketchAlertTimes     == 3
SketchAlertDuration  == 200
SketchCmdTimes       == 5
SketchCmdDuration    == 300

SyncCheckCap == SyncCheckIntervalMs + SyncLoopDelayMs
BeepAgeCap   == SketchCmdDuration

otherThanSync == <<now, buzzerVars, seqVars, raw, hallVars, pcVars, mqttVars,
                   led_pin, wifiVars, logVars, edge, raw_changes, wrapVars,
                   cmdVars, linkVars, wifiConnected, connectPending,
                   mqttConnected, mqttConnecting, sinceConnectStart,
                   disconnectDelay, connect_call, relink, flag_lag,
                   sensorVars, callVars, level_at, moreVars>>

\* The beeper of the sketch as one value.
Beeper == [active |-> beepActive, times |-> beepTimes, dur |-> beepDuration,
           age |-> sinceBeepStart, pin |-> buzzerOut]

\* startBeep counting one step for each beep.
startBeep_single(b, times, duration) ==
    [b EXCEPT !.times = times, !.dur = duration, !.age = 0,
              !.active = TRUE]

\* startBeep: beepTimes = times * 2, a HIGH and a LOW step for each beep.
startBeep(b, times, duration) ==
    [b EXCEPT !.times = times * 2, !.dur = duration, !.age = 0,
              !.active = TRUE]

handleBeep(b) ==
    IF ~b.active THEN b
    ELSE IF b.age >= b.dur
         THEN LET left == b.times - 1
              IN  [b EXCEPT !.pin = IF left <= 0 THEN 0 ELSE 1 - b.pin,
                            !.age = 0,
                            !.times = left,
                            !.active = left > 0]
         ELSE b

\* callback for a message on esp32/lock/cmd.
callback(b, msg) ==
    IF msg = "BEEP" THEN startBeep(b, SketchCmdTimes, SketchCmdDuration)
    ELSE IF msg = "STOP" THEN [b EXCEPT !.active = FALSE, !.pin = 0]
    ELSE b

\* loop() after the session check: client.loop(), the sensor, handleBeep
\* and delay(100); connected is client.connected() at that point.
syncPoll(connected) ==
    \E msg \in IF connected THEN {"none", "BEEP", "STOP"} ELSE {"none"} :
        LET b1      == callback(Beeper, msg)
            changed == hallPin # lastState
            b2      == IF changed
                       THEN startBeep(b1, SketchAlertTimes, SketchAlertDuration)
                       ELSE b1
            b3      == handleBeep(b2)
        IN  /\ lastState' = hallPin
            /\ beepActive' = b3.active
            /\ beepTimes' = b3.times
            /\ beepDuration' = b3.dur
            /\ buzzerOut' = b3.pin
            /\ sinceBeepStart' = Min(b3.age + SyncLoopDelayMs, BeepAgeCap)
            /\ beep_started' = (msg = "BEEP" \/ changed)
            /\ UNCHANGED hallPin

\* State after setup(): the link is up, no session yet.
InitSync ==
    /\ now = 0
    /\ buzzer_mutex = "NULL"
    /\ InitBuzzerStatics
    /\ InitMainStatics
    /\ InitWrapperStatics
    /\ raw = TRUE
    /\ mqtt_client = "NULL"
    /\ led_pin = 0
    /\ wifi_bit = FALSE
    /\ wifi_attempt = FALSE
    /\ cmd = [n |-> 0, data |-> <<>>]
    /\ mon_on = FALSE
    /\ init_left = 0
    /\ mon_wait = 0
    /\ mon_checked = FALSE
    /\ down_quiet = 0
    /\ link_last = "none"
    /\ run = [by |-> "none", calls |-> 0]
    /\ wifiConnected = TRUE
    /\ clientConnected = FALSE
    /\ connectPending = FALSE
    /\ mqttConnected = FALSE
    /\ mqttConnecting = FALSE
    /\ sinceConnectStart = 0
    /\ sinceMqttCheck \in {SyncWifiPollMs, SyncCheckCap}
    /\ disconnectDelay = -1
    /\ connect_call = FALSE
    /\ subscribe_call = FALSE
    /\ relink = "none"
    /\ flag_lag = -1
    /\ syncPc = "loop"
    /\ hallPin \in BOOLEAN
    /\ lastState = TRUE
    /\ beepActive = FALSE
    /\ beepTimes = 0
    /\ beepDuration = 0
    /\ sinceBeepStart = 0
    /\ buzzerOut = 0
    /\ beep_started = FALSE
    /\ InitSensorStatics
    /\ InitNoCalls
    /\ InitBooted
    /\ InitUnstamped

\* One iteration of loop() in which reconnect() is not called, or is called
\* and connects at its first attempt.
SyncLoop ==
    /\ syncPc = "loop"
    /\ LET check == sinceMqttCheck > SyncCheckIntervalMs
       IN  \/ /\ ~(check /\ ~clientConnected)
              /\ syncPoll(clientConnected)
              /\ sinceMqttCheck' =
                    IF check THEN SyncLoopDelayMs
                    ELSE Min(sinceMqttCheck + SyncLoopDelayMs, SyncCheckCap)
              /\ subscribe_call' = FALSE
              /\ UNCHANGED clientConnected
           \/ /\ check /\ ~clientConnected
              /\ clientConnected' = TRUE
              /\ subscribe_call' = TRUE
              /\ syncPoll(TRUE)
              /\ sinceMqttCheck' = SyncLoopDelayMs
    /\ UNCHANGED syncPc
    /\ UNCHANGED otherThanSync

\* loop() calls reconnect() and the first attempt fails: delay(5000) inside
\* reconnect().
SyncLoopBlocks ==
    /\ syncPc = "loop"
    /\ sinceMqttCheck > SyncCheckIntervalMs
    /\ ~clientConnected
    /\ syncPc' = "reconnect"
    /\ sinceMqttCheck' = Min(SyncRetryDelayMs, SyncCheckCap)
    /\ sinceBeepStart' = Min(sinceBeepStart + SyncRetryDelayMs, BeepAgeCap)
    /\ subscribe_call' = FALSE
    /\ beep_started' = FALSE
    /\ UNCHANGED <<clientConnected, hallPin, lastState, beepActive, beepTimes,
                   beepDuration, buzzerOut>>
    /\ UNCHANGED otherThanSync

\* Inside reconnect(): the next attempt fails too, delay(5000) again.
SyncRetryFails ==
    /\ syncPc = "reconnect"
    /\ sinceMqttCheck' = Min(sinceMqttCheck + SyncRetryDelayMs, SyncCheckCap)
    /\ sinceBeepStart' = Min(sinceBeepStart + SyncRetryDelayMs, BeepAgeCap)
    /\ subscribe_call' = FALSE
    /\ beep_started' = FALSE
    /\ UNCHANGED <<syncPc, clientConnected, hallPin, lastState, beepActive,
                   beepTimes, beepDuration, buzzerOut>>
    /\ UNCHANGED otherThanSync

\* Inside reconnect(): the attempt connects, reconnect() subscribes and
\* returns, and loop() goes on.
SyncRetryConnects ==
    /\ syncPc = "reconnect"
    /\ syncPc' = "loop"
    /\ clientConnected' = TRUE
    /\ subscribe_call' = TRUE
    /\ syncPoll(TRUE)
    /\ sinceMqttCheck' = Min(sinceMqttCheck + SyncLoopDelayMs, SyncCheckCap)
    /\ UNCHANGED otherThanSync

\* The session is lost: client.connected() turns false.
SyncSessionLost ==
    /\ clientConnected
    /\ clientConnected' = FALSE
    /\ subscribe_call' = FALSE
    /\ beep_started' = FALSE
    /\ UNCHANGED <<syncPc, sinceMqttCheck, hallPin, lastState, beepActive,
                   beepTimes, beepDuration, sinceBeepStart, buzzerOut>>
    /\ UNCHANGED otherThanSync

\* The door moves.
SyncDoorMoves ==
    /\ hallPin' = ~hallPin
    /\ subscribe_call' = FALSE
    /\ beep_started' = FALSE
    /\ UNCHANGED <<syncPc, clientConnected, sinceMqttCheck, lastState,
                   beepActive, beepTimes, beepDuration, sinceBeepStart,
                   buzzerOut>>
    /\ UNCHANGED otherThanSync

NextSync ==
    \/ SyncLoop
    \/ SyncLoopBlocks
    \/ SyncRetryFails
    \/ SyncRetryConnects
    \/ SyncSessionLost
    \/ SyncDoorMoves

\* The processor keeps executing the sketch; the broker owes nothing, so
\* reconnect() may go on failing for ever.
FairSync == WF_vars(SyncLoop \/ SyncLoopBlocks) /\ WF_vars(SyncRetryFails)

SpecSync == InitSync /\ [][NextSync]_vars /\ FairSync

\* C19 (as claimed): in the synchronous sketch an active alert sequence
\* completes with the output low, unless startBeep is called again, also
\* while the session is Down and the broker unreachable: reconnect() never
\* keeps loop() from calling handleBeep.
C19_ReconnectNeverStallsBeeper ==
    beepActive ~> ((~beepActive /\ buzzerOut = 0) \/ beep_started)


(***************************************************************************)
(* One beep sequence, with any int arguments, left to buzzer_update.       *)
(*                                                                         *)
(* buzzer_start_beep is called once and buzzer_stop_beep never; the main   *)
(* loop keeps calling buzzer_update while time advances.  An advance of    *)
(* time that leaves elapsed above every duration in use changes no         *)
(* comparison of buzzer_update and is left out.                            *)
(***************************************************************************)
IntTimesSet    == (0 - MaxTimes)..MaxTimes
IntDurationSet == {k * PollMs : k \in (0 - MaxDurTicks)..MaxDurTicks}

ElapsedCap == (MaxDurTicks + 1) * PollMs

InitTerm == InitAlert

TermStart ==
    /\ seq_args = <<>>
    /\ \E times \in IntTimesSet, duration \in IntDurationSet :
          buzzer_start_beep(times, duration)
    /\ UNCHANGED <<now, otherThanBuzzer>>

TermUpdate ==
    /\ buzzer_update
    /\ UNCHANGED <<now, otherThanBuzzer>>

TermAdvance ==
    /\ seq_args # <<>>
    /\ now - beep_start_time < ElapsedCap
    /\ now' = now + PollMs
    /\ UNCHANGED <<buzzerVars, seqVars, otherThanBuzzer>>

NextTerm == TermStart \/ TermUpdate \/ TermAdvance

\* The main loop calls buzzer_update every 10 ms, and time advances.
FairTerm == WF_vars(TermUpdate) /\ WF_vars(TermAdvance)

SpecTerm == InitTerm /\ [][NextTerm]_vars /\ FairTerm

\* C20 (as claimed): whatever int arguments buzzer_start_beep was given, a
\* sequence that no other start or stop interrupts becomes inactive with the
\* output low after finitely many buzzer_update calls.
C20_EverySequenceEnds ==
    beep_active ~> (~beep_active /\ buzzer_pin = 0)


(***************************************************************************)
(* The LED and the sensor accessors.                                       *)
(***************************************************************************)
LastDoorEvent == door_events[Len(door_events)]

\* C21 (as claimed): after a confirmed door-closed transition the LED output
\* is on, and after a confirmed door-opened transition it is off.
C21_LedFollowsDoor ==
    door_events # <<>> => led_pin = IF LastDoorEvent.closed THEN 1 ELSE 0

\* C22 (as claimed): the LED output is on exactly when WIFI_CONNECTED_BIT is
\* set, after any sequence of link events and session events.
C22_LedShowsLink ==
    led_pin = IF wifi_bit THEN 1 ELSE 0

\* C23 (as claimed): for an initialised sensor hall_sensor_read() is true
\* exactly when HALL_PIN is low (magnet detected).
C23_ReadTrueWhenMagnet ==
    hall_mutex = "valid" => (hall_sensor_read <=> ~raw)

\* C24 (as claimed): once a door event has occurred,
\* hall_sensor_get_last_state() is the state that the last event reported
\* (in the sense of last_state: true = HIGH = no magnet = open).
C24_AccessorGivesConfirmedState ==
    door_events # <<>> =>
        (hall_sensor_get_last_state <=> ~LastDoorEvent.closed)


\* C25 (as claimed): after buzzer_start_beep(0, d) the output is never high:
\* from that call on, until another start, the output is low and the
\* sequencer inactive.
C25_ZeroTimesNoPulse ==
    (seq_args # <<>> /\ seq_args[1] = 0) => (buzzer_pin = 0 /\ ~beep_active)


(***************************************************************************)
(* hall_task beside the MQTT event task, statement by statement.           *)
(*                                                                         *)
(* mqtt_connected is a plain static bool written by mqtt_event_handler in  *)
(* the MQTT task and read by hall_task without a lock: the handler can     *)
(* run between hall_task's test of the flag and its call of                *)
(* esp_mqtt_client_publish.  hall_pc = "publish" is hall_task after a      *)
(* test that passed and before the call.                                   *)
(***************************************************************************)
\* hall_task from hall_sensor_read to the test if (mqtt_connected &&
\* mqtt_client); with the test failed, on to the vTaskDelay.
hall_task_test ==
    /\ hall_pc = "ready"
    /\ IF hall_sensor_read # last_hall_state /\ DebounceElapsed(now)
       THEN /\ last_hall_state' = hall_sensor_read
            /\ last_interrupt_time' = now
            /\ IF mqtt_connected /\ mqtt_client # "NULL"
               THEN /\ hall_pc' = "publish"
                    /\ UNCHANGED <<logVars, buzzerVars, seqVars>>
               ELSE /\ hall_pc' = "delay"
                    /\ buzzer_start_beep(BEEP_DEFAULT_TIMES,
                                         BEEP_DEFAULT_DURATION)
                    /\ alert_log' = Append(alert_log, <<BEEP_DEFAULT_TIMES,
                                                        BEEP_DEFAULT_DURATION>>)
                    /\ door_events' = Append(door_events,
                                             [closed |-> ~hall_sensor_read,
                                              up |-> FALSE])
                    /\ event_at' = now
                    /\ UNCHANGED published
       ELSE /\ hall_pc' = "delay"
            /\ UNCHANGED <<hallVars, logVars, buzzerVars, seqVars>>

\* hall_task from the call of esp_mqtt_client_publish to the vTaskDelay.
hall_task_publish(ok) ==
    /\ hall_pc = "publish"
    /\ hall_pc' = "delay"
    /\ published' = Append(published,
                           [payload |-> IF ~last_hall_state THEN "CLOSED"
                                        ELSE "OPEN",
                            ok |-> ok])
    /\ buzzer_start_beep(BEEP_DEFAULT_TIMES, BEEP_DEFAULT_DURATION)
    /\ alert_log' = Append(alert_log,
                           <<BEEP_DEFAULT_TIMES, BEEP_DEFAULT_DURATION>>)
    /\ door_events' = Append(door_events,
                             [closed |-> ~last_hall_state, up |-> TRUE])
    /\ event_at' = last_interrupt_time
    /\ UNCHANGED hallVars

RaceTest ==
    /\ hall_task_test
    /\ UNCHANGED <<now, raw, main_pc, mqttVars, led_pin, wifiVars, edge,
                   raw_changes, wrapVars, extVars>>

RacePublish ==
    /\ \E ok \in BOOLEAN : hall_task_publish(ok)
    /\ UNCHANGED <<now, raw, main_pc, mqttVars, led_pin, wifiVars, edge,
                   raw_changes, wrapVars, extVars>>

InitRace ==
    /\ InitTasks
    /\ mqtt_client = "valid"
    /\ wifi_bit

TickRace == Elapse(MaxRaceTicks * PollMs)

NextRace ==
    \/ RaceTest
    \/ RacePublish
    \/ MainLoop
    \/ TickRace
    \/ RawChange
    \/ MqttConnected
    \/ MqttDisconnected

SpecRace == InitRace /\ [][NextRace]_vars

\* C26 (as claimed): esp_mqtt_client_publish is called by hall_task only at
\* a moment when mqtt_connected is true, in every interleaving with the MQTT
\* event task.
C26_PublishOnlyWhileFlagUp ==
    [][published' # published => mqtt_connected]_vars


\* ---------------------------------------------------------------------------
\* The buzzer API called from three tasks, statement by statement.
\*
\* hall_task starts the door alert, the MQTT event task starts and stops the
\* commanded sequence, app_main's loop calls buzzer_update. A call is a task's
\* walk through the function's statements; another task may run between any
\* two of them, and the clock may advance. buzzer_mutex is a FreeRTOS mutex
\* taken with portMAX_DELAY: a task waits at "take" while another holds it.
\* ---------------------------------------------------------------------------

\* The clock advances by the time of half a default beep.
CallStepMs == BEEP_DEFAULT_DURATION \div 2

otherThanCalls == <<seqVars, raw, hallVars, pcVars, mqttVars, led_pin, wifiVars,
                    logVars, edge, raw_changes, wrapVars, cmdVars, linkVars,
                    asyncVars, syncVars, sensorVars, level_at,
                    moreVars>>

\* buzzer.c's statics and the pin, as one value.
BuzzerNow ==
    [active |-> beep_active, times |-> beep_times, duration |-> beep_duration,
     start_time |-> beep_start_time, state |-> buzzer_state,
     count |-> beep_count, pin |-> buzzer_pin]

SetBuzzer(b) ==
    /\ beep_active' = b.active
    /\ beep_times' = b.times
    /\ beep_duration' = b.duration
    /\ beep_start_time' = b.start_time
    /\ buzzer_state' = b.state
    /\ beep_count' = b.count
    /\ buzzer_pin' = b.pin
    /\ UNCHANGED buzzer_mutex

\* buzzer_start_beep(times, duration) between take and give, read at time t.
StartF(b, times, duration, t) ==
    [active |-> TRUE, times |-> times, duration |-> duration, start_time |-> t,
     state |-> TRUE, count |-> 0, pin |-> 1]

\* buzzer_stop_beep between take and give.
StopF(b) ==
    [b EXCEPT !.active = FALSE, !.pin = 0, !.state = FALSE, !.count = 0]

\* buzzer_update between take and give, its clock read at time t.
UpdateF(b, t) ==
    IF ~b.active THEN b
    ELSE IF b.state
    THEN IF ElapsedReached(t - b.start_time, b.duration)
         THEN [b EXCEPT !.pin = 0, !.state = FALSE, !.count = b.count + 1,
                        !.start_time = t,
                        !.active = (b.count + 1 < b.times)]
         ELSE b
    ELSE IF b.count < b.times /\ ElapsedReached(t - b.start_time, b.duration)
         THEN [b EXCEPT !.pin = 1, !.state = TRUE, !.start_time = t]
         ELSE b

\* The arguments each task passes to buzzer_start_beep.
StartArgs(t) ==
    IF t = "hall" THEN <<BEEP_DEFAULT_TIMES, BEEP_DEFAULT_DURATION>>
                  ELSE <<BEEP_CMD_TIMES, BEEP_CMD_DURATION>>

\* The functions each task calls.
OpsOf(t) ==
    IF t = "main" THEN {"update"}
    ELSE IF t = "hall" THEN {"start"}
    ELSE {"start", "stop", "is_active"}

\* The first statement after the mutex is taken.
BodyOf(op) ==
    IF op = "start" THEN "clear"
    ELSE IF op = "stop" THEN "halt"
    ELSE IF op = "is_active" THEN "read"
    ELSE "body"

\* xSemaphoreTake that returns although another task holds the mutex.
xSemaphoreTake_at_once(t) ==
    /\ mutex_owner' = t
    /\ active_before' = beep_active

\* xSemaphoreTake(buzzer_mutex, portMAX_DELAY): returns once the mutex is free.
xSemaphoreTake(t) ==
    /\ mutex_owner = "none"
    /\ mutex_owner' = t
    /\ active_before' = beep_active

\* xSemaphoreGive that leaves the mutex with the caller.
xSemaphoreGive_kept(t) ==
    /\ UNCHANGED <<mutex_owner, active_before>>

\* xSemaphoreGive(buzzer_mutex)
xSemaphoreGive(t) ==
    /\ mutex_owner' = "none"
    /\ UNCHANGED active_before

At(t, pc) == call_pc' = [call_pc EXCEPT ![t] = pc]

\* A statement of a call that writes the statics: b is the state it leaves,
\* l the state after the calls so far taken one at a time.
Statement(t, from, to, b, l) ==
    /\ call_pc[t] = from
    /\ At(t, to)
    /\ SetBuzzer(b)
    /\ lin' = l
    /\ UNCHANGED <<now, call_op, mutex_owner, active_before, raced,
                   otherThanCalls>>

\* A task enters one of its functions; the mutex exists.
Invoke(t, op) ==
    /\ call_pc[t] = "idle"
    /\ buzzer_mutex # "NULL"
    /\ call_op' = [call_op EXCEPT ![t] = op]
    /\ At(t, IF op = "update" THEN "peek" ELSE "take")
    /\ UNCHANGED <<now, buzzerVars, mutex_owner, active_before, raced, lin,
                   otherThanCalls>>

\* buzzer_update's test of beep_active before it takes the mutex. The read is
\* not ordered with the writes of a task inside the mutex: it gives the value
\* in memory or the one from before that task went in. A call that returns
\* here while buzzer_start_beep is inside counts as made before that start,
\* which replaces every field.
Peek(t) ==
    /\ call_pc[t] = "peek"
    /\ \E seen \in (IF mutex_owner = "none" THEN {beep_active}
                    ELSE {beep_active, active_before}) :
          IF seen
          THEN /\ At(t, "take")
               /\ UNCHANGED <<call_op, lin>>
          ELSE /\ At(t, "idle")
               /\ call_op' = [call_op EXCEPT ![t] = "none"]
               /\ lin' = IF mutex_owner # "none"
                            /\ call_op[mutex_owner] = "start"
                         THEN lin ELSE UpdateF(lin, now)
    /\ UNCHANGED <<now, buzzerVars, mutex_owner, active_before, raced,
                   otherThanCalls>>

Take(t) ==
    /\ call_pc[t] = "take"
    /\ xSemaphoreTake(t)
    /\ At(t, BodyOf(call_op[t]))
    /\ UNCHANGED <<now, buzzerVars, call_op, raced, lin, otherThanCalls>>

\* buzzer_start_beep, the statements between take and give.
StartBody(t) ==
    \/ Statement(t, "clear", "times",
                 [BuzzerNow EXCEPT !.active = FALSE, !.pin = 0,
                                   !.state = FALSE], lin)
    \/ Statement(t, "times", "duration",
                 [BuzzerNow EXCEPT !.times = StartArgs(t)[1]], lin)
    \/ Statement(t, "duration", "arm",
                 [BuzzerNow EXCEPT !.duration = StartArgs(t)[2],
                                   !.count = 0], lin)
    \/ Statement(t, "arm", "raise",
                 [BuzzerNow EXCEPT !.start_time = now, !.active = TRUE],
                 StartF(lin, StartArgs(t)[1], StartArgs(t)[2], now))
    \/ Statement(t, "raise", "give",
                 [BuzzerNow EXCEPT !.pin = 1, !.state = TRUE], lin)

\* buzzer_stop_beep, the statements between take and give.
StopBody(t) ==
    \/ Statement(t, "halt", "silence",
                 [BuzzerNow EXCEPT !.active = FALSE], StopF(lin))
    \/ Statement(t, "silence", "give",
                 [BuzzerNow EXCEPT !.pin = 0, !.state = FALSE, !.count = 0],
                 lin)

\* buzzer_is_active, the read between take and give.
ActiveBody(t) == Statement(t, "read", "give", BuzzerNow, lin)

\* buzzer_update between take and give; nothing reads the statics without the
\* mutex but buzzer_update's own first test, so the block is one step.
UpdateBody(t) ==
    Statement(t, "body", "give", UpdateF(BuzzerNow, now), UpdateF(lin, now))

Give(t) ==
    /\ call_pc[t] = "give"
    /\ xSemaphoreGive(t)
    /\ At(t, "idle")
    /\ call_op' = [call_op EXCEPT ![t] = "none"]
    /\ raced' = (raced \/ \E u \in Tasks \ {t} : call_pc[u] = "take")
    /\ UNCHANGED <<now, buzzerVars, lin, otherThanCalls>>

InitCalls == InitAlert

CallInvoked == \E t \in Tasks : \E op \in OpsOf(t) : Invoke(t, op)
CallPeeks == \E t \in Tasks : Peek(t)
CallTakes == \E t \in Tasks : Take(t)
CallStarts == \E t \in Tasks : StartBody(t)
CallStops == \E t \in Tasks : StopBody(t)
CallReads == \E t \in Tasks : ActiveBody(t)
CallUpdates == \E t \in Tasks : UpdateBody(t)
CallGives == \E t \in Tasks : Give(t)

\* esp_timer_get_time() advances.
CallsTick ==
    /\ now < BootMs + MaxCallTicks * CallStepMs
    /\ now' = now + CallStepMs
    /\ UNCHANGED <<buzzerVars, callVars, otherThanCalls>>

NextCalls ==
    \/ CallInvoked
    \/ CallPeeks
    \/ CallTakes
    \/ CallStarts
    \/ CallStops
    \/ CallReads
    \/ CallUpdates
    \/ CallGives
    \/ CallsTick

\* A task inside a call goes on running (the scheduler lets every ready task
\* run), and a task waiting for the mutex gets it if it is free again and
\* again (fair scheduling of the waiters).
Runs(t) ==
    Peek(t) \/ StartBody(t) \/ StopBody(t) \/ ActiveBody(t) \/ UpdateBody(t)
    \/ Give(t)

FairCalls == \A t \in Tasks : WF_vars(Runs(t)) /\ SF_vars(Take(t))

SpecCalls == InitCalls /\ [][NextCalls]_vars /\ FairCalls

AllReturned == \A t \in Tasks : call_pc[t] = "idle"

\* C27: buzzer_start_beep, buzzer_stop_beep and buzzer_update called from the
\* hall task, the MQTT event task and the main loop at once are linearizable:
\* whenever no call is inside the mutex the statics and the pin are what the
\* calls made so far give when taken one after the other, buzzer_is_active
\* reads that state, the count and the duration belong to one start, and the
\* output is never high with the sequencer inactive.
C27_CallsLinearizable ==
    /\ mutex_owner = "none" => BuzzerNow = lin
    /\ \A t \in Tasks : call_pc[t] = "read" => beep_active = lin.active
    /\ mutex_owner = "none" =>
          /\ <<beep_times, beep_duration>>
                \in {<<0, 0>>, StartArgs("hall"), StartArgs("mqtt")}
          /\ ~(buzzer_pin = 1 /\ ~beep_active)

\* Every call has returned, one of them after waiting for the mutex while
\* another was inside, and a sequence is running.
C27_Witness ==
    /\ AllReturned
    /\ raced
    /\ beep_active
    /\ buzzer_pin = 1


InsideMutex(t) == call_pc[t] \notin {"idle", "peek", "take"}

\* buzzer_mutex is held exactly by the one task between take and give.
MutexHeldInside ==
    /\ \A t \in Tasks : InsideMutex(t) <=> mutex_owner = t
    /\ AllReturned => mutex_owner = "none"

\* C28: the buzzer component is deadlock-free: with the hall task, the MQTT
\* event task and the main loop calling buzzer_start_beep, buzzer_stop_beep,
\* buzzer_is_active and buzzer_update in any interleaving, the mutex is held
\* only by the task between take and give and is free once the calls have
\* returned, and under fair scheduling every call returns.
C28_EveryCallReturns ==
    /\ []MutexHeldInside
    /\ \A t \in Tasks : (call_pc[t] # "idle") ~> (call_pc[t] = "idle")

\* Every call has returned and the mutex is free, after a call waited for it
\* and buzzer_update counted a beep.
C28_Witness ==
    /\ AllReturned
    /\ mutex_owner = "none"
    /\ raced
    /\ beep_count > 0


\* ---------------------------------------------------------------------------
\* The output of the sequencer in time: sequences of any length and duration
\* are started and stopped at any moment, buzzer_update is called at any
\* period of PollMs, and level_at records when the output last changed (a
\* start counts as a change: it lowers and raises the pin).
\* ---------------------------------------------------------------------------

otherThanPulse == <<raw, hallVars, pcVars, mqttVars, led_pin, wifiVars,
                    logVars, edge, raw_changes, wrapVars, cmdVars, linkVars,
                    asyncVars, syncVars, sensorVars, callVars, moreVars>>

InitPulse == InitAlert

PulseStart ==
    /\ \E times \in 0..MaxTimes :
       \E duration \in {k * PollMs : k \in 0..MaxDurTicks} :
          buzzer_start_beep(times, duration)
    /\ level_at' = now
    /\ UNCHANGED <<now, otherThanPulse>>

PulseStop ==
    /\ buzzer_stop_beep
    /\ level_at' = IF buzzer_pin' # buzzer_pin THEN now ELSE level_at
    /\ UNCHANGED <<now, otherThanPulse>>

PulseUpdate ==
    /\ buzzer_update
    /\ level_at' = IF buzzer_pin' # buzzer_pin THEN now ELSE level_at
    /\ UNCHANGED <<now, otherThanPulse>>

PulseAdvance ==
    /\ now < BootMs + MaxPulseTicks * PollMs
    /\ now' = now + PollMs
    /\ UNCHANGED <<buzzerVars, seqVars, level_at, otherThanPulse>>

NextPulse == PulseStart \/ PulseStop \/ PulseUpdate \/ PulseAdvance

SpecPulse == InitPulse /\ [][NextPulse]_vars

\* C29: in a sequence started by buzzer_start_beep(n, d) with d > 0 and not
\* interrupted, a buzzer_update that changes the output level comes no earlier
\* than d ms after the previous change of level or the start, so every pulse
\* and every gap lasts at least d, and one call changes the level at most
\* once.
C29_LevelHeldForDuration ==
    [][(PulseUpdate /\ buzzer_pin' # buzzer_pin /\ beep_duration > 0)
       => /\ now - level_at >= beep_duration
          /\ seq_toggles' = seq_toggles + 1]_vars

\* The second pulse of a sequence with the longest duration has just begun:
\* a pulse and a gap have been timed.
C29_Witness ==
    /\ seq_args # <<>>
    /\ beep_duration = MaxDurTicks * PollMs
    /\ beep_duration > PollMs
    /\ seq_toggles >= 3
    /\ ~seq_stopped
    /\ buzzer_pin = 1
    /\ level_at = now
    /\ now - seq_at >= 2 * beep_duration


\* C30: in hall_task two consecutive confirmed transitions are more than
\* HALL_DEBOUNCE_MS apart: for HALL_DEBOUNCE_MS after a confirmation no step
\* confirms, publishes or alerts another transition, whatever the raw input
\* does in that time.
C30_LockoutAfterConfirmation ==
    [][(door_events # <<>>
        /\ (\/ door_events' # door_events
            \/ last_hall_state' # last_hall_state
            \/ published' # published
            \/ alert_log' # alert_log))
       => now - event_at > HALL_DEBOUNCE_MS]_vars

\* A second transition has been confirmed; the raw input changed after the
\* first one and had to wait longer than one poll of hall_task, so it changed
\* inside the lockout.
C30_Witness ==
    /\ Len(door_events) >= 2
    /\ edge.seen
    /\ edge.nev = Len(door_events) - 1
    /\ event_at - edge.at > PollMs
    /\ LastDoorEvent.closed = ~raw


(***************************************************************************)
(* Claims about the changes hall_task confirms.                            *)
(***************************************************************************)

C32_SteadyInputNoEvent ==
    raw_changes = 0 =>
       /\ door_events = <<>>
       /\ published = <<>>
       /\ alert_log = <<>>


\* ---------------------------------------------------------------------------
\* Messages on any topic. The broker delivers what the session subscribed to
\* (the command topic); a message on another topic reaches the client when
\* the broker sends one (a subscription made on the broker's side, a bridge).
\* ---------------------------------------------------------------------------

MQTT_TOPIC_CMD == "esp32/lock/cmd"
MQTT_TOPIC_STATE == "esp32/lock/state"
Topics == {MQTT_TOPIC_CMD, MQTT_TOPIC_STATE}

InitTopic == InitAlert

TickTopic == Elapse(MaxCmdTicks * PollMs)

\* MQTT_EVENT_DATA for a message on any topic: the handler prints
\* event->topic and decodes event->data.
TopicData ==
    /\ cmd.n < MaxCommands
    /\ mqtt_client = "valid"
    /\ wifi_bit
    /\ mqtt_connected
    /\ \E topic \in Topics, data \in AllPayloads :
          /\ topic = MQTT_TOPIC_CMD => subscribed
          /\ mqtt_event_data(data)
          /\ cmd' = [n |-> cmd.n + 1, data |-> data]
          /\ cmd_topic' = topic
    /\ UNCHANGED <<now, raw, hallVars, pcVars, wifiVars, logVars, edge,
                   raw_changes, wrapVars, linkVars, asyncVars, syncVars,
                   sensorVars, callVars, level_at, session_no, bootVars,
                   reconnect_call, tailVars>>

NextTopic ==
    \/ HallTask
    \/ MainLoop
    \/ TickTopic
    \/ DoorMoves
    \/ MqttConnected
    \/ TopicData

SpecTopic == InitTopic /\ [][NextTopic]_vars

\* C33: a message on a topic other than the command topic never changes the
\* alert sequencer, whatever its payload: only messages on the command topic
\* are decoded.
C33_OtherTopicsIgnored ==
    [][(cmd'.n # cmd.n /\ cmd_topic' # MQTT_TOPIC_CMD)
       => buzzerVars' = buzzerVars]_vars


\* ---------------------------------------------------------------------------
\* Sessions and commands. The MQTT client hands the handler its events in
\* order: MQTT_EVENT_CONNECTED when a session is established, the messages of
\* the subscription while it lasts, MQTT_EVENT_DISCONNECTED when it ends; a
\* new session starts without subscriptions.
\* ---------------------------------------------------------------------------

otherThanSession == <<now, raw, hallVars, pcVars, wifiVars, logVars, edge,
                      raw_changes, wrapVars, linkVars, asyncVars, syncVars,
                      sensorVars, callVars, level_at>>

InitSession == InitAlert

TickSession == Elapse(MaxCmdTicks * PollMs)

SessionUp ==
    /\ session_no < MaxSessions
    /\ mqtt_client = "valid"
    /\ wifi_bit
    /\ ~subscribed
    /\ mqtt_event_connected
    /\ session_no' = session_no + 1
    /\ UNCHANGED <<otherThanSession, cmdVars, cmd_topic, bootVars,
                   reconnect_call, tailVars>>

SessionDown ==
    /\ mqtt_client = "valid"
    /\ mqtt_event_disconnected
    /\ subscribed' = FALSE
    /\ UNCHANGED <<otherThanSession, cmdVars, moreVars>>

\* A message of the session's subscription is delivered.
SessionData ==
    /\ cmd.n < MaxCommands
    /\ mqtt_client = "valid"
    /\ wifi_bit
    /\ subscribed
    /\ \E data \in Payloads :
          /\ mqtt_event_data(data)
          /\ cmd' = [n |-> cmd.n + 1, data |-> data]
          /\ cmd_topic' = MQTT_TOPIC_CMD
    /\ UNCHANGED <<otherThanSession, session_no, bootVars, reconnect_call, tailVars>>

NextSession ==
    \/ HallTask
    \/ MainLoop
    \/ TickSession
    \/ DoorMoves
    \/ SessionUp
    \/ SessionDown
    \/ WifiDisconnected
    \/ WifiGotIp
    \/ SessionData

SpecSession == InitSession /\ [][NextSession]_vars

\* C34: the MQTT_EVENT_DATA handler starts or stops the sequencer only while
\* mqtt_connected is true: from the end of a session to the next
\* MQTT_EVENT_CONNECTED, with its subscription, no command changes the
\* sequencer.
C34_CommandsOnlyWhileFlagUp ==
    [][(cmd'.n # cmd.n /\ buzzerVars' # buzzerVars) => mqtt_connected]_vars

\* A command has started the sequencer in the second session, after the first
\* one ended.
C34_Witness ==
    /\ session_no = MaxSessions
    /\ mqtt_connected
    /\ cmd.n >= 1
    /\ cmd.data = BEEP
    /\ seq_args = <<BEEP_CMD_TIMES, BEEP_CMD_DURATION>>
    /\ door_events = <<>>


\* ---------------------------------------------------------------------------
\* Start-up: app_main from wifi_init's wait for the first connection to its
\* loop. Time is counted from the start of that wait. The link comes up at
\* any time or never; creating a mutex, configuring a GPIO, creating a task
\* and starting the MQTT client may each fail.
\* ---------------------------------------------------------------------------

\* The clock advances by a third of the 3 s delay until the tasks run.
BootStepMs == BootMs \div 3

Booting == boot_pc \in {"wifi_wait", "delay", "hall_init", "buzzer_init",
                        "create_tasks"}

otherThanBoot == <<seqVars, hallVars, pcVars, logVars, edge, raw_changes,
                   wrapVars, cmdVars, linkVars, asyncVars, syncVars, callVars,
                   level_at, cmd_topic, session_no, reconnect_call, tailVars>>

InitBoot ==
    /\ now = 0
    /\ buzzer_mutex = "NULL"
    /\ InitBuzzerStatics
    /\ InitMainStatics
    /\ InitWrapperStatics
    /\ raw \in BOOLEAN
    /\ mqtt_client = "NULL"
    /\ led_pin = 0
    /\ wifi_bit = FALSE
    /\ wifi_attempt = TRUE
    /\ cmd = [n |-> 0, data |-> <<>>]
    /\ mon_on = FALSE
    /\ init_left = WifiInitWaitMs
    /\ mon_wait = 0
    /\ mon_checked = FALSE
    /\ down_quiet = 0
    /\ link_last = "none"
    /\ run = [by |-> "none", calls |-> 0]
    /\ InitPrototypes
    /\ InitSensorStatics
    /\ InitNoCalls
    /\ InitUnstamped
    /\ boot_pc = "wifi_wait"
    /\ boot_at = 0
    /\ ever_up = FALSE

\* xEventGroupWaitBits(.., WIFI_CONNECTED_BIT, .., pdMS_TO_TICKS(10000)) that
\* waits without a timeout.
WaitBitsReturns_no_timeout == wifi_bit

\* xEventGroupWaitBits(.., WIFI_CONNECTED_BIT, .., pdMS_TO_TICKS(10000))
\* returns: the bit is set or 10 s have passed.
WaitBitsReturns == wifi_bit \/ now - boot_at >= WifiInitWaitMs

\* wifi_init from the return of the wait: the LED is lit if the link is up,
\* the monitor task is created; init_components goes on to its 3 s delay.
BootWaitEnds ==
    /\ boot_pc = "wifi_wait"
    /\ WaitBitsReturns
    /\ led_pin' = IF wifi_bit THEN 1 ELSE led_pin
    /\ \E created \in BOOLEAN :
          boot_pc' = IF created THEN "delay" ELSE "failed"
    /\ boot_at' = now
    /\ UNCHANGED <<now, buzzerVars, raw, mqttVars, wifiVars, sensorVars,
                   ever_up, otherThanBoot>>

\* vTaskDelay(3000) ends and mqtt_init runs: the client is created and
\* started, or not created, or created and not started; either way
\* init_components goes on.
BootMqttInit ==
    /\ boot_pc = "delay"
    /\ now - boot_at >= BootMs
    /\ \E client \in {"valid", "NULL", "unstarted"} : mqtt_client' = client
    /\ boot_pc' = "hall_init"
    /\ boot_at' = now
    /\ UNCHANGED <<now, buzzerVars, raw, mqtt_connected, subscribed, led_pin,
                   wifiVars, sensorVars, ever_up, otherThanBoot>>

\* hall_sensor_init, called by init_components.
BootHallInit ==
    /\ boot_pc = "hall_init"
    /\ \/ /\ hall_mutex' = "valid"
          /\ last_state' = raw
          /\ boot_pc' = "buzzer_init"
       \/ /\ UNCHANGED sensorVars
          /\ boot_pc' = "failed"
    /\ boot_at' = now
    /\ UNCHANGED <<now, buzzerVars, raw, mqttVars, led_pin, wifiVars, ever_up,
                   otherThanBoot>>

\* buzzer_init, called by init_components.
BootBuzzerInit ==
    /\ boot_pc = "buzzer_init"
    /\ \/ /\ buzzer_init
          /\ boot_pc' = "create_tasks"
          /\ UNCHANGED <<hallVars, pcVars, logVars, edge, raw_changes,
                         wrapVars, cmdVars, linkVars, asyncVars, syncVars,
                         callVars, level_at, cmd_topic, session_no,
                         reconnect_call, tailVars>>
       \/ /\ boot_pc' = "failed"
          /\ UNCHANGED <<buzzerVars, otherThanBoot>>
    /\ boot_at' = now
    /\ UNCHANGED <<now, raw, mqttVars, led_pin, wifiVars, sensorVars, ever_up>>

\* create_tasks: xTaskCreate(hall_task); app_main then enters its loop.
BootCreateTasks ==
    /\ boot_pc = "create_tasks"
    /\ \E created \in BOOLEAN :
          boot_pc' = IF created THEN "running" ELSE "failed"
    /\ boot_at' = now
    /\ UNCHANGED <<now, buzzerVars, raw, mqttVars, led_pin, wifiVars,
                   sensorVars, ever_up, otherThanBoot>>

BootHallTask == boot_pc = "running" /\ HallTask

BootMainLoop == boot_pc = "running" /\ MainLoop

\* IP_EVENT_STA_GOT_IP
BootGotIp ==
    /\ wifi_attempt
    /\ wifi_event_got_ip
    /\ ever_up' = TRUE
    /\ UNCHANGED <<now, buzzerVars, raw, mqttVars, sensorVars, boot_pc,
                   boot_at, otherThanBoot>>

\* The raw input changes.
BootRawChange ==
    /\ raw_changes < MaxRawChanges
    /\ raw_changes' = raw_changes + 1
    /\ raw' = ~raw
    /\ edge' = [at |-> now, conf |-> last_hall_state, from |-> raw,
                nev |-> Len(door_events), npub |-> Len(published),
                nal |-> Len(alert_log), seen |-> TRUE]
    /\ UNCHANGED <<now, buzzerVars, seqVars, hallVars, pcVars, mqttVars,
                   led_pin, wifiVars, logVars, wrapVars, extVars>>

\* Time passes: before the loop up to the end of the wait or delay in
\* progress; in the loop by the 10 ms of the two delays.
BootTick ==
    /\ \/ /\ boot_pc = "wifi_wait"
          /\ ~WaitBitsReturns
          /\ now' = now + BootStepMs
          /\ UNCHANGED pcVars
       \/ /\ boot_pc = "delay"
          /\ now - boot_at < BootMs
          /\ now' = now + BootStepMs
          /\ UNCHANGED pcVars
       \/ /\ boot_pc = "running"
          /\ hall_pc = "delay"
          /\ main_pc = "delay"
          /\ now - boot_at < MaxBootTicks * PollMs
          /\ now' = now + PollMs
          /\ hall_pc' = "ready"
          /\ main_pc' = "ready"
    /\ UNCHANGED <<buzzerVars, seqVars, raw, hallVars, mqttVars, led_pin,
                   wifiVars, logVars, edge, raw_changes, wrapVars, extVars>>

NextBoot ==
    \/ BootWaitEnds
    \/ BootMqttInit
    \/ BootHallInit
    \/ BootBuzzerInit
    \/ BootCreateTasks
    \/ BootHallTask
    \/ BootMainLoop
    \/ BootGotIp
    \/ BootRawChange
    \/ BootTick

\* app_main runs and time passes.
FairBoot ==
    /\ WF_vars(BootWaitEnds \/ BootMqttInit \/ BootHallInit \/ BootBuzzerInit
               \/ BootCreateTasks)
    /\ WF_vars(BootTick)

SpecBoot == InitBoot /\ [][NextBoot]_vars /\ FairBoot


\* The waits of start-up are bounded: the tasks run, or start-up has failed,
\* by the end of the 10 s wait and the 3 s delay.
BootBounded ==
    /\ boot_pc = "wifi_wait" => now <= WifiInitWaitMs
    /\ Booting => now <= WifiInitWaitMs + BootMs

\* hall_task, once running, confirms a level that stays within the lockout
\* and one poll.
BootDetects ==
    (boot_pc = "running" /\ hall_pc = "delay"
     /\ hall_sensor_read # last_hall_state)
       => /\ edge.seen
          /\ now - edge.at < HALL_DEBOUNCE_MS + PollMs

\* C35: start-up never waits for connectivity without bound: with the link
\* down for good wifi_init returns after its 10 s wait, a failure of mqtt_init
\* does not end init_components, start-up ends (in the loop of app_main, or
\* with the failure of a mutex, a GPIO or a task), and hall_task then confirms
\* the door transitions and starts the alert for each with the link and the
\* session down.
C35_StartupNeverWaitsForLink ==
    /\ [](BootBounded /\ BootDetects)
    /\ [][/\ (boot_pc = "delay" /\ boot_pc' # "delay") => boot_pc' = "hall_init"
          /\ door_events' # door_events =>
                /\ boot_pc = "running"
                /\ beep_active'
                /\ buzzer_pin' = 1
                /\ seq_args' = <<BEEP_DEFAULT_TIMES, BEEP_DEFAULT_DURATION>>]_vars
    /\ <>(~Booting)

\* The link never came up and the MQTT client could not be created; the tasks
\* run since the end of the 10 s wait and the 3 s delay, and a change of the
\* door after that has been confirmed and has started the alert, unpublished.
C35_Witness ==
    /\ boot_pc = "running"
    /\ ~ever_up
    /\ ~wifi_bit
    /\ mqtt_client = "NULL"
    /\ boot_at = WifiInitWaitMs + BootMs
    /\ edge.seen
    /\ edge.at > boot_at
    /\ Len(door_events) = edge.nev + 1
    /\ published = <<>>
    /\ beep_active
    /\ seq_args = <<BEEP_DEFAULT_TIMES, BEEP_DEFAULT_DURATION>>


\* ---------------------------------------------------------------------------
\* The queue-based main: mqtt_task beside the MQTT wrapper module and the
\* Wi-Fi event handler. Whether MQTT_CHECK_INTERVAL_MS have passed since the
\* last check is left open at each iteration.
\* ---------------------------------------------------------------------------

\* mqtt_reconnect: ESP_FAIL without a client, else the client is stopped and
\* started again.
mqtt_reconnect == w_client # "NULL"

\* One iteration of mqtt_task's loop, the check of the session.
mqtt_task(due) ==
    reconnect_call' = (due /\ ~mqtt_is_connected /\ mqtt_reconnect)

QueueTask ==
    /\ \E due \in BOOLEAN : mqtt_task(due)
    /\ UNCHANGED <<now, buzzerVars, seqVars, raw, hallVars, pcVars, mqttVars,
                   led_pin, wifiVars, logVars, edge, raw_changes, wrapVars,
                   cmdVars, linkVars, asyncVars, syncVars, sensorVars,
                   callVars, level_at, cmd_topic, session_no, bootVars, tailVars>>

\* hall_sensor_callback(state): the payload goes with the truth of state, and
\* is passed to mqtt_publish while mqtt_is_connected(); the alert is started
\* in both branches.
hall_sensor_callback(state) ==
    IF state # qhall.last
    THEN /\ qhall' = [last |-> state,
                      published |->
                         IF mqtt_is_connected
                         THEN Append(qhall.published,
                                     [level |-> raw,
                                      payload |-> IF state THEN "CLOSED"
                                                           ELSE "OPEN"])
                         ELSE qhall.published]
         /\ buzzer_start_beep(BEEP_DEFAULT_TIMES, BEEP_DEFAULT_DURATION)
    ELSE UNCHANGED <<qhall, buzzerVars, seqVars>>

\* One iteration of the queue-based main's hall_task.
queue_hall_task ==
    LET current_state == hall_sensor_read
    IN  IF current_state # qhall.last
        THEN hall_sensor_callback(current_state)
        ELSE UNCHANGED <<qhall, buzzerVars, seqVars>>

QueueHallTask ==
    /\ queue_hall_task
    /\ UNCHANGED <<now, raw, hallVars, pcVars, mqttVars, led_pin, wifiVars,
                   logVars, edge, raw_changes, wrapVars, cmdVars, linkVars,
                   asyncVars, syncVars, sensorVars, callVars, level_at,
                   cmd_topic, session_no, bootVars, reconnect_call, agree,
                   stamp>>

InitQueue == InitTasks

NextQueue ==
    \/ QueueTask
    \/ WrapInit
    \/ WrapEvent
    \/ WifiDisconnected
    \/ WifiGotIp
    \/ RawChange
    \/ QueueHallTask

SpecQueue == InitQueue /\ [][NextQueue]_vars

\* C36: the session supervisor issues a connect or reconnect attempt only
\* while the link is up: an iteration of mqtt_task restarts the MQTT client
\* only with WIFI_CONNECTED_BIT set.
C36_ReconnectOnlyWhileLinkUp ==
    [][(~reconnect_call /\ reconnect_call') => wifi_is_connected]_vars

\* C39: the queue-based main maps the raw level to the payload as the current
\* main and the sketch do: "CLOSED" when the pin has gone LOW, "OPEN" when it
\* has gone HIGH.
C39_QueueMainSamePayloads ==
    \A i \in DOMAIN qhall.published :
        qhall.published[i].payload =
            (IF ~qhall.published[i].level THEN "CLOSED" ELSE "OPEN")


\* ---------------------------------------------------------------------------
\* The buzzer component through its whole life: buzzer_init with each of its
\* outcomes, the four functions of the API, buzzer_deinit. A handle that was
\* deleted and not set to NULL passes the tests against NULL; taking it is
\* undefined: the call either goes on as with a mutex or never returns.
\* ---------------------------------------------------------------------------
InitOutcomes == {"ok", "no_mutex", "no_gpio"}

\* buzzer_init with the outcome of xSemaphoreCreateMutex and of gpio_config.
buzzer_init_outcome(outcome) ==
    CASE outcome = "ok" -> buzzer_init
      [] outcome = "no_mutex" ->
            /\ buzzer_mutex' = "NULL"
            /\ UNCHANGED <<beep_active, beep_times, beep_duration,
                           beep_start_time, buzzer_state, beep_count,
                           buzzer_pin, seqVars>>
      [] outcome = "no_gpio" ->
            /\ buzzer_mutex' = "deleted"
            /\ UNCHANGED <<beep_active, beep_times, beep_duration,
                           beep_start_time, buzzer_state, beep_count,
                           buzzer_pin, seqVars>>

\* xSemaphoreTake never returning on a deleted handle.
TakeHangs ==
    /\ buzzer_mutex = "deleted"
    /\ UNCHANGED <<buzzerVars, seqVars>>

\* buzzer_deinit: buzzer_stop_beep, gpio_reset_pin, then the mutex is deleted
\* and the handle set to NULL.
buzzer_deinit ==
    /\ buzzer_mutex' = "NULL"
    /\ IF buzzer_mutex = "NULL"
       THEN UNCHANGED <<beep_active, beep_times, beep_duration,
                        beep_start_time, buzzer_state, beep_count,
                        buzzer_pin, seqVars>>
       ELSE /\ beep_active' = FALSE
            /\ buzzer_pin' = 0
            /\ buzzer_state' = FALSE
            /\ beep_count' = 0
            /\ UNCHANGED <<beep_times, beep_duration, beep_start_time>>
            /\ seq_toggles' = seq_toggles + PinChange(buzzer_pin, 0)
            /\ seq_stopped' = TRUE
            /\ UNCHANGED <<seq_args, seq_clean, seq_cut, seq_prev, seq_at>>

LifeInit ==
    /\ buzzer_mutex # "valid"
    /\ \E outcome \in InitOutcomes : buzzer_init_outcome(outcome)
    /\ UNCHANGED <<now, otherThanBuzzer>>

LifeStart ==
    /\ \E times \in TimesSet, duration \in DurationSet :
          \/ buzzer_start_beep(times, duration)
          \/ TakeHangs
    /\ UNCHANGED <<now, otherThanBuzzer>>

LifeStop ==
    /\ \/ buzzer_stop_beep
       \/ TakeHangs
    /\ UNCHANGED <<now, otherThanBuzzer>>

LifeUpdate ==
    /\ \/ buzzer_update
       \/ TakeHangs
    /\ UNCHANGED <<now, otherThanBuzzer>>

LifeDeinit ==
    /\ \/ buzzer_deinit
       \/ TakeHangs
    /\ UNCHANGED <<now, otherThanBuzzer>>

NextLife ==
    \/ LifeInit
    \/ LifeStart
    \/ LifeStop
    \/ LifeUpdate
    \/ LifeDeinit
    \/ ApiAdvance

SpecLife == InitBuzzer /\ [][NextLife]_vars

\* C37: while the buzzer component is not successfully initialised
\* (buzzer_init not called, returned an error, or buzzer_deinit was called),
\* no call of start, stop or update writes the pin or changes a field of the
\* sequencer.
C37_UninitialisedApiInert ==
    [][(buzzer_mutex # "valid" /\ buzzer_mutex' = buzzer_mutex)
          => UNCHANGED <<beep_active, beep_times, beep_duration,
                         beep_start_time, buzzer_state, beep_count,
                         buzzer_pin>>]_vars


\* ---------------------------------------------------------------------------
\* The sequencer of the sketch (startBeep, handleBeep) and the sequencer of
\* buzzer.c (buzzer_start_beep, buzzer_update) side by side: both idle with
\* the output low, both given the same (n, d) at the same time, each polled
\* once per period by its loop, the period being one or two PollMs long.
\* ---------------------------------------------------------------------------
AgreeSketch(b) ==
    /\ beepActive' = b.active
    /\ beepTimes' = b.times
    /\ beepDuration' = b.dur
    /\ sinceBeepStart' = b.age
    /\ buzzerOut' = b.pin

otherThanAgree == <<raw, hallVars, pcVars, mqttVars, led_pin, wifiVars, logVars,
                    edge, raw_changes, wrapVars, cmdVars, linkVars, asyncVars,
                    syncPc, hallPin, lastState, beep_started, sensorVars,
                    callVars, level_at, cmd_topic, session_no, bootVars,
                    reconnect_call, qhall, stamp>>

AgreeStart ==
    /\ buzzer_mutex = "valid"
    /\ ~agree.started
    /\ \E n \in 1..MaxTimes, d \in DurationSet :
          /\ buzzer_start_beep(n, d)
          /\ AgreeSketch(startBeep(Beeper, n, d))
          /\ agree' = [NoAgree EXCEPT !.started = TRUE, !.n = n, !.d = d,
                                      !.esp_rise = now]
    /\ UNCHANGED <<now, otherThanAgree>>

\* The main loop's call of buzzer_update.
AgreeUpdate ==
    /\ agree.started
    /\ ~agree.esp_ran
    /\ buzzer_update
    /\ LET rise == buzzer_pin = 0 /\ buzzer_pin' = 1
           fall == buzzer_pin = 1 /\ buzzer_pin' = 0
       IN  agree' = [agree EXCEPT
                       !.esp_ran = TRUE,
                       !.esp_rise = IF rise THEN now ELSE @,
                       !.esp_pulses = IF fall THEN @ + 1 ELSE @,
                       !.esp_short = @ \/ (fall /\ now - agree.esp_rise < agree.d)]
    /\ UNCHANGED <<now, beepActive, beepTimes, beepDuration, sinceBeepStart,
                   buzzerOut, otherThanAgree>>

\* The sketch's loop calling handleBeep.
AgreeHandle ==
    /\ agree.started
    /\ ~agree.sk_ran
    /\ LET b    == handleBeep(Beeper)
           rise == buzzerOut = 0 /\ b.pin = 1
           fall == buzzerOut = 1 /\ b.pin = 0
       IN  /\ AgreeSketch(b)
           /\ agree' = [agree EXCEPT
                          !.sk_ran = TRUE,
                          !.sk_rise = IF rise THEN now ELSE @,
                          !.sk_pulses = IF fall THEN @ + 1 ELSE @,
                          !.sk_short = @ \/ (fall /\ now - agree.sk_rise < agree.d)]
    /\ UNCHANGED <<now, buzzerVars, seqVars, otherThanAgree>>

\* Both loops sleep until their next iteration.
AgreeTick ==
    /\ agree.started
    /\ agree.esp_ran /\ agree.sk_ran
    /\ beep_active \/ beepActive
    /\ \E k \in 1..2 :
          /\ now' = now + k * PollMs
          /\ sinceBeepStart' = sinceBeepStart + k * PollMs
    /\ agree' = [agree EXCEPT !.esp_ran = FALSE, !.sk_ran = FALSE]
    /\ UNCHANGED <<buzzerVars, seqVars, beepActive, beepTimes, beepDuration,
                   buzzerOut, otherThanAgree>>

NextAgree == ApiInit \/ AgreeStart \/ AgreeUpdate \/ AgreeHandle \/ AgreeTick

FairAgree == WF_vars(NextAgree)

SpecAgree == InitBuzzer /\ [][NextAgree]_vars /\ FairAgree

\* Both sequencers have ended.
AgreeDone == agree.started /\ ~beep_active /\ ~beepActive

\* Neither has made a pulse too many or too short, and the one that has ended
\* has made n pulses and left the output low.
AgreeSafe ==
    agree.started =>
       /\ agree.esp_pulses <= agree.n /\ agree.sk_pulses <= agree.n
       /\ ~agree.esp_short /\ ~agree.sk_short
       /\ ~beep_active => (agree.esp_pulses = agree.n /\ buzzer_pin = 0)
       /\ ~beepActive => (agree.sk_pulses = agree.n /\ buzzerOut = 0)

\* C38: from idle with the output low and given the same n >= 1 and d > 0,
\* the sequencer of the sketch and the sequencer of buzzer.c both make exactly
\* n high pulses of at least d ms each and end inactive with the output low.
C38_SequencersAgree == []AgreeSafe /\ <>AgreeDone

C38_Witness ==
    /\ AgreeDone
    /\ agree.n = MaxTimes
    /\ agree.esp_pulses = agree.n /\ agree.sk_pulses = agree.n
    /\ buzzer_pin = 0 /\ buzzerOut = 0


\* ---------------------------------------------------------------------------
\* hall_task's debounce test on the 32-bit millisecond timestamp, around the
\* moment the timestamp wraps. A uint32_t is held as its two 16-bit halves
\* <<high, low>>; the clock now counts from StampLeadTicks periods before the
\* wrap, so that current_time is 2^32 - lead + now, modulo 2^32.
\* ---------------------------------------------------------------------------
Add32(a, k) ==
    LET low == a[2] + k
    IN  <<(a[1] + (low \div Half)) % Half, low % Half>>

\* a - b in uint32_t arithmetic.
Sub32(a, b) ==
    <<(a[1] - b[1] - (IF a[2] < b[2] THEN 1 ELSE 0)) % Half, (a[2] - b[2]) % Half>>

Epoch32 == <<Half - 1, Half - StampLeadTicks * PollMs>>

\* uint32_t current_time = esp_timer_get_time() / 1000
current_time32 == Add32(Epoch32, now)

\* current_time - last_interrupt_time > HALL_DEBOUNCE_MS
DebounceElapsed32(current_time, last) ==
    LET diff == Sub32(current_time, last)
    IN  diff[1] > 0 \/ diff[2] > HALL_DEBOUNCE_MS

\* The time since the last accepted change is followed up to SinceCap.
SinceCap == HALL_DEBOUNCE_MS + PollMs

\* The timestamp of the last accepted change and the time since: a change
\* accepted less than SinceCap ago, or one accepted longer ago (or none since
\* the start: 0), whatever its timestamp.
StampStarts ==
    {[since |-> k * PollMs, at |-> Sub32(Epoch32, <<0, k * PollMs>>)] :
        k \in 0..(SinceCap \div PollMs - 1)}
    \cup {[since |-> SinceCap, at |-> <<0, 0>>],
          [since |-> SinceCap, at |-> Sub32(Epoch32, <<0, SinceCap>>)]}
    \cup {[since |-> SinceCap, at |-> Add32(Epoch32, k * PollMs)] :
             k \in 0..MaxStampTicks}

InitStamp ==
    /\ now = 0
    /\ buzzer_mutex = "valid"
    /\ InitBuzzerStatics
    /\ InitMainStatics
    /\ InitWrapperStatics
    /\ InitObservation
    /\ raw \in BOOLEAN
    /\ hall_sensor_init
    /\ mqtt_client = "valid"
    /\ wifi_bit = TRUE
    /\ wifi_attempt = FALSE
    /\ led_pin = 1
    /\ \E s \in StampStarts :
          stamp = [pc |-> "ready", last_hall_state |-> raw,
                   last_interrupt_time |-> s.at,
                   since |-> s.since, pending |-> -1, accepts |-> 0,
                   early |-> FALSE]

otherThanStamp == <<buzzerVars, seqVars, hallVars, pcVars, mqttVars, led_pin,
                    wifiVars, logVars, edge, wrapVars, cmdVars, linkVars,
                    asyncVars, syncVars, sensorVars, callVars, level_at,
                    cmd_topic, session_no, bootVars, reconnect_call, agree,
                    qhall>>

\* hall_task from the read of the pin to its vTaskDelay.
StampPoll ==
    /\ stamp.pc = "ready"
    /\ LET current_state == hall_sensor_read
           current_time  == current_time32
       IN  IF current_state # stamp.last_hall_state
              /\ DebounceElapsed32(current_time, stamp.last_interrupt_time)
           THEN stamp' = [pc |-> "delay",
                          last_hall_state |-> current_state,
                          last_interrupt_time |-> current_time,
                          since |-> 0, pending |-> -1,
                          accepts |-> stamp.accepts + 1,
                          early |-> stamp.early
                                      \/ stamp.since < HALL_DEBOUNCE_MS]
           ELSE stamp' = [stamp EXCEPT !.pc = "delay"]
    /\ UNCHANGED <<now, raw, raw_changes, otherThanStamp>>

\* vTaskDelay(pdMS_TO_TICKS(10))
StampTick ==
    /\ stamp.pc = "delay"
    /\ now < MaxStampTicks * PollMs
    /\ now' = now + PollMs
    /\ stamp' = [stamp EXCEPT
                   !.pc = "ready",
                   !.since = IF @ + PollMs < SinceCap THEN @ + PollMs ELSE SinceCap,
                   !.pending = IF @ < 0 THEN @ ELSE @ + PollMs]
    /\ UNCHANGED <<raw, raw_changes, otherThanStamp>>

\* The level of HALL_PIN changes.
StampRawChange ==
    /\ raw_changes < MaxRawChanges
    /\ raw_changes' = raw_changes + 1
    /\ raw' = ~raw
    /\ stamp' = [stamp EXCEPT
                   !.pending = IF raw' # stamp.last_hall_state THEN 0 ELSE -1]
    /\ UNCHANGED <<now, otherThanStamp>>

NextStamp == StampPoll \/ StampTick \/ StampRawChange

SpecStamp == InitStamp /\ [][NextStamp]_vars

\* C40: with the timestamps taken modulo 2^32, also across the wrap, the
\* debounce test never accepts a change less than HALL_DEBOUNCE_MS after the
\* change accepted before it, and a change that persists is never left
\* unaccepted at a poll HALL_DEBOUNCE_MS plus one polling period after it began.
C40_DebounceAcrossWrap ==
    /\ ~stamp.early
    /\ (stamp.pc = "delay" /\ raw # stamp.last_hall_state)
          => (stamp.pending >= 0 /\ stamp.pending < HALL_DEBOUNCE_MS + PollMs)

=============================================================================
